---- MODULE Spec2Model ----
(***************************************************************************)
(* SSR Studio: the episode orchestrator (orchestrator.py), the sandbox's   *)
(* snapshot operations (sandbox.py), the consistency validator             *)
(* (validator.py), the cancel endpoint (api.py) and the reward engine.     *)
(*                                                                         *)
(* One episode is run by EpisodeOrchestrator.run_episode in its own        *)
(* database session; cancel_episode runs in another session.  The episode  *)
(* row is modelled twice: `db` is the persisted row, `episode` is the ORM  *)
(* object the orchestrator loaded once (expire_on_commit = False) and      *)
(* never reads again; a commit writes the attributes assigned since the    *)
(* previous commit.                                                        *)
(*                                                                         *)
(* The sandbox workspace is a map from paths to content tokens; a unified  *)
(* diff is a map from the paths it touches to <<old, new>> content; the    *)
(* git repository is the set of its tags with the tree each points to.     *)
(***************************************************************************)
EXTENDS Integers, Sequences, FiniteSets, TLC

(***************************************************************************)
(* Bounds of the model.                                                    *)
(***************************************************************************)
\* config.solver_attempts ranges over 0..MaxSolverAttempts
MaxSolverAttempts == 2
\* number of cancel requests sent to the API for the episode
MaxCancelRequests == 1
\* number of edit_file calls followed within one solver run
MaxEditCalls == 2

\* the agents' budgets: loop iterations (max_steps / max_tool_steps), tokens
\* (max_tokens), and the tool calls one gateway response carries
MaxToolSteps == 2
MaxTokens == 2
MaxCallsPerResponse == 2

\* SandboxPool.max_sandboxes, and the number of Sandbox objects the pool
\* creates in a run
PoolMaxSandboxes == 2
MaxPoolCreated == 4

\* the largest number of solver attempts a reward is computed for
MaxRewardAttempts == 4

\* the largest number of lines of a test file
MaxFileLines == 3

\* the largest number of Sandbox.bash calls made on one container
MaxBashCalls == 3

\* Sandbox.bash: max_size per stream, and the length of the marker
\* "\n... [truncated]" appended to a cut stream
BashMaxSize == 50000
TruncationMarkerLen == 16

\* _execute_tool: result[:1000] in the ToolCallRecord
TraceCap == 1000

(***************************************************************************)
(* EpisodeStatus (models.py) and its pipeline order.                       *)
(***************************************************************************)
PENDING == "pending"
INJECTING == "injecting"
VALIDATING == "validating"
SOLVING == "solving"
EVALUATING == "evaluating"
COMPLETE == "complete"
FAILED == "failed"
CANCELLED == "cancelled"

EpisodeStatus ==
    {PENDING, INJECTING, VALIDATING, SOLVING, EVALUATING, COMPLETE, FAILED, CANCELLED}

\* TestStatus (models.py)
PASSED == "passed"
TFAILED == "failed"
SKIPPED == "skipped"
ERROR == "error"

(***************************************************************************)
(* Optional values: None is the empty tuple, a float is an exact rational  *)
(* <<numerator, denominator>> with a positive denominator.                 *)
(***************************************************************************)
None == <<>>

Rat(n, d) == <<n, d>>

RatAdd(a, b) == <<a[1] * b[2] + b[1] * a[2], a[2] * b[2]>>

RatSub(a, b) == <<a[1] * b[2] - b[1] * a[2], a[2] * b[2]>>

RatMul(a, b) == <<a[1] * b[1], a[2] * b[2]>>

RatNeg(a) == <<0 - a[1], a[2]>>

RatEq(a, b) == a[1] * b[2] = b[1] * a[2]

RatLess(a, b) == a[1] * b[2] < b[1] * a[2]

\* equality of two optional floats
OptEq(a, b) == IF a = None \/ b = None THEN a = b ELSE RatEq(a, b)

(***************************************************************************)
(* The workspace: paths and content tokens.                                *)
(***************************************************************************)
Absent == "absent"

SrcFile == "src/util.py"
LibFile == "src/extra.py"
TestFile == "tests/test_util.py"
NotesFile == "notes.txt"

RepoFiles == {SrcFile, LibFile, TestFile}

HarnessFiles == {"test_script.sh", "test_parser.py", "test_files.txt"}

DiffFiles == {"bug_inject.diff", "test_weaken.diff", "pred_patch.diff"}

AllFiles == RepoFiles \cup HarnessFiles \cup DiffFiles \cup {NotesFile}

\* the repository image the sandbox container is started from
RepoImage ==
    [f \in AllFiles |->
        IF f \in {SrcFile, LibFile} THEN "orig"
        ELSE IF f = TestFile THEN "strong"
        ELSE Absent]

EmptyTree == [f \in AllFiles |-> Absent]

(***************************************************************************)
(* Unified diffs.  A diff text is named by a token (the content of the     *)
(* file it is written to); PatchOf gives, for each path the diff touches,  *)
(* the content its hunks expect and the content they produce.              *)
(***************************************************************************)
EmptyPatch == <<>>

PatchOf(d) ==
    CASE d = "bug_src" -> (SrcFile :> <<"orig", "bug">>)
      [] d = "bug_src_lib" -> (SrcFile :> <<"orig", "bug">>) @@ (LibFile :> <<"orig", "bug">>)
      [] d = "bug_lib" -> (LibFile :> <<"orig", "bug">>)
      [] d = "weaken_test" -> (TestFile :> <<"strong", "weak">>)
      [] d = "weaken_src" -> (SrcFile :> <<"bug", "junk">>)
      [] d = "pred_fix" -> (SrcFile :> <<"bug", "fix">>)
      [] d = "pred_revert" -> (SrcFile :> <<"bug", "orig">>)
      [] d = "pred_junk" -> (SrcFile :> <<"bug", "junk">>)
      [] d = "pred_junk_cheat" ->
            (SrcFile :> <<"bug", "junk">>) @@ (TestFile :> <<"weak", "gutted">>)
      [] d = "pred_fix_break_test" ->
            (SrcFile :> <<"bug", "fix">>) @@ (TestFile :> <<"weak", "junk">>)
      [] d = "pred_stale" -> (SrcFile :> <<"orig", "fix">>)
      [] d = "pred_rig_parser" -> ("test_parser.py" :> <<"parser", "parser_empty">>)
      [] d = "bug_test" -> (TestFile :> <<"strong", "junk">>)
      [] d = "bug_src_hidden_test" ->
            (SrcFile :> <<"orig", "bug">>) @@ (TestFile :> <<"strong", "strong_b">>)
      [] d = "weaken_test_b" -> (TestFile :> <<"strong_b", "weak">>)
      [] OTHER -> EmptyPatch

\* the paths whose file headers in the diff are not of the form
\* "--- a/<path>" / "+++ b/<path>" (e.g. "--- old/<path>"); patch -p1 strips
\* the first component whatever it is
OtherPrefixHeaders(d) ==
    IF d = "bug_src_hidden_test" THEN {TestFile} ELSE {}

\* Validator._parse_diff_files: the paths of the header lines that match
\* ^(---|+++) [ab]/(.+)$
ParseDiffFiles(d) == DOMAIN PatchOf(d) \ OtherPrefixHeaders(d)

(***************************************************************************)
(* Sandbox file and patch operations (sandbox.py).                         *)
(***************************************************************************)
\* Sandbox.write_file
WriteFile(w, path, content) == [w EXCEPT ![path] = content]

\* bash "patch -p1 < file": every hunk whose expected content is present is
\* applied, the others are rejected; the exit code is 0 iff all applied.
ApplyHunks(w, p) ==
    [w |-> [f \in AllFiles |->
               IF f \in DOMAIN p /\ w[f] = p[f][1] THEN p[f][2] ELSE w[f]],
     ok |-> DOMAIN p # {} /\ \A f \in DOMAIN p : w[f] = p[f][1]]

PatchForward(w, file) == ApplyHunks(w, PatchOf(w[file]))

\* bash "patch -R -p1 < file"
PatchReverse(w, file) ==
    LET p == PatchOf(w[file])
    IN  [w |-> [f \in AllFiles |->
                   IF f \in DOMAIN p /\ w[f] = p[f][2] THEN p[f][1] ELSE w[f]],
         ok |-> DOMAIN p # {} /\ \A f \in DOMAIN p : w[f] = p[f][2]]

(***************************************************************************)
(* The git repository of the sandbox (Sandbox.git_init, git_tag and the    *)
(* "git checkout <tag> -- <path>" commands the orchestrator issues).       *)
(***************************************************************************)
TagNames == {"ssr-original", "ssr-buggy"}

NoCommit == [exists |-> FALSE, tree |-> EmptyTree]

\* Sandbox.git_init: rm -rf .git; git init (no tag, no commit)
GitInit == [tags |-> [t \in TagNames |-> NoCommit], head |-> NoCommit, commits |-> 0]

\* Sandbox.git_tag: git add -A; git commit; git tag <name> (refused when the
\* tag already exists)
GitTag(g, w, name) ==
    LET c == [exists |-> TRUE, tree |-> w]
    IN  [tags |-> [g.tags EXCEPT ![name] = IF @.exists THEN @ ELSE c],
         head |-> c, commits |-> g.commits + 1]

\* "git checkout <commit> -- .": every path of the commit's tree is written,
\* paths the tree does not hold are left as they are; fails without the commit
CheckoutAll(w, c) ==
    IF ~c.exists THEN w
    ELSE [f \in AllFiles |-> IF c.tree[f] # Absent THEN c.tree[f] ELSE w[f]]

\* "git checkout <commit> -- <path>"
CheckoutFile(w, c, path) ==
    IF c.exists /\ c.tree[path] # Absent THEN [w EXCEPT ![path] = c.tree[path]] ELSE w

\* Sandbox.git_restore_from_tag / the evaluator's loop over test_files
RECURSIVE CheckoutFiles(_, _, _)
CheckoutFiles(w, c, paths) ==
    IF paths = {} THEN w
    ELSE LET f == CHOOSE x \in paths : TRUE
         IN  CheckoutFiles(CheckoutFile(w, c, f), c, paths \ {f})

(***************************************************************************)
(* The test harness: bash test_script.sh 2>&1 | python test_parser.py.     *)
(* The repository has two tests in TestFile: t1 exercises SrcFile, t2      *)
(* exercises SrcFile and LibFile.  The weakened test file drops t1's       *)
(* assertion, a gutted one drops both.                                     *)
(***************************************************************************)
Good(c) == c \in {"orig", "fix"}

Outcome(b) == IF b THEN PASSED ELSE TFAILED

\* what the tests do on workspace w
TestMapOf(w) ==
    CASE w[TestFile] \in {"strong", "strong_b"} ->
            ("t1" :> Outcome(Good(w[SrcFile])))
            @@ ("t2" :> Outcome(Good(w[SrcFile]) /\ Good(w[LibFile])))
      [] w[TestFile] = "weak" ->
            ("t1" :> PASSED)
            @@ ("t2" :> Outcome(Good(w[SrcFile]) /\ Good(w[LibFile])))
      [] w[TestFile] = "gutted" -> ("t1" :> PASSED) @@ ("t2" :> PASSED)
      [] w[TestFile] = Absent -> <<>>
      [] OTHER -> ("t1" :> ERROR) @@ ("t2" :> ERROR)

\* the test parsers an injector may submit: the status string each writes
\* for test t whose outcome is st
ParserStatus(parser, t, st) ==
    CASE parser = "parser_broken" /\ st = TFAILED -> "broken"
      [] parser = "parser_ok" /\ t = "t2" /\ st = PASSED -> "ok"
      [] parser = "parser_skip" /\ t = "t2" -> SKIPPED
      [] parser = "parser_error" /\ t = "t2" -> ERROR
      [] parser = "parser_t2_failed" /\ t = "t2" -> TFAILED
      [] OTHER -> st

Parsers ==
    {"parser", "parser_empty", "parser_broken", "parser_ok", "parser_skip",
     "parser_error", "parser_t2_failed", "parser_fragile"}

\* parser_fragile crashes (no JSON on stdout) when the two source files are
\* not in step with each other
Crashes(parser, w) ==
    parser = "parser_fragile" /\ Good(w[SrcFile]) # Good(w[LibFile])

\* the BashResult of the harness command: stdout parses as a JSON object
\* (parsed) holding `map`
RunTests(w) ==
    LET parser == w["test_parser.py"]
        m == TestMapOf(w)
    IN  IF w["test_script.sh"] # "script" \/ parser \notin Parsers \/ Crashes(parser, w)
        THEN [parsed |-> FALSE, map |-> <<>>, exit_code |-> 2]
        ELSE IF parser = "parser_empty"
        THEN [parsed |-> TRUE, map |-> <<>>, exit_code |-> 0]
        ELSE [parsed |-> TRUE,
              map |-> [t \in DOMAIN m |-> ParserStatus(parser, t, m[t])],
              exit_code |-> 0]

(***************************************************************************)
(* The consistency validator (validator.py).                               *)
(***************************************************************************)
TestStatuses == {PASSED, TFAILED, SKIPPED, ERROR}

\* ctx.*_mapping = {k: TestStatus(v) if v in TestStatus values else default}
NormalizeMap(m, dflt) ==
    [k \in DOMAIN m |-> IF m[k] \in TestStatuses THEN m[k] ELSE dflt]

StepResult(name, passed) == [name |-> name, passed |-> passed]

\* ValidatorConfig.enable_inverse_mutation: the default of config.py
EnableInverseMutation == TRUE

\* Step 1
ValidateTestFilesExistence(art, w) ==
    LET missing_files == {f \in art.test_files : w[f] = Absent}
        non_test_files == ParseDiffFiles(art.test_weaken_diff) \ art.test_files
    IN  [passed |-> missing_files = {} /\ non_test_files = {}, w |-> w]

\* Step 2
ValidateParser(art, w) ==
    LET w1 == WriteFile(WriteFile(w, "test_script.sh", art.test_script),
                        "test_parser.py", art.test_parser)
        result == RunTests(w1)
    IN  [passed |-> result.exit_code = 0 /\ result.parsed,
         w |-> w1,
         test_mapping |-> IF result.exit_code = 0 /\ result.parsed
                          THEN NormalizeMap(result.map, PASSED) ELSE <<>>]

\* variant of step 3 that does not compare the number of tests with
\* min_passing_tests
ValidateOriginalTestsNoThreshold(cfg, test_mapping) ==
    /\ DOMAIN test_mapping # {}
    /\ \A k \in DOMAIN test_mapping : test_mapping[k] = PASSED

\* Step 3
ValidateOriginalTests(cfg, test_mapping) ==
    LET failed_tests == {k \in DOMAIN test_mapping : test_mapping[k] # PASSED}
    IN  /\ DOMAIN test_mapping # {}
        /\ failed_tests = {}
        /\ Cardinality(DOMAIN test_mapping) >= cfg.min_passing_tests

\* Step 4
ValidateBugScope(art, cfg) ==
    LET changed_files == ParseDiffFiles(art.bug_inject_diff)
    IN  /\ changed_files \cap art.test_files = {}
        /\ Cardinality(changed_files) >= cfg.min_changed_files

\* Step 5
ValidateBugValidity(art, cfg, w) ==
    LET w1 == WriteFile(w, "bug_inject.diff", art.bug_inject_diff)
        applied == PatchForward(w1, "bug_inject.diff")
        test_result == RunTests(applied.w)
        bug_mapping == NormalizeMap(test_result.map, TFAILED)
        failing_tests == {k \in DOMAIN bug_mapping : bug_mapping[k] = TFAILED}
    IN  IF ~applied.ok \/ ~test_result.parsed
        THEN [passed |-> FALSE, w |-> applied.w, bug_test_mapping |-> <<>>]
        ELSE [passed |-> Cardinality(failing_tests) >= cfg.min_failing_tests,
              w |-> applied.w, bug_test_mapping |-> bug_mapping]

\* Step 6
ValidateTestWeakening(art, w, bug_test_mapping) ==
    LET w1 == WriteFile(w, "test_weaken.diff", art.test_weaken_diff)
        applied == PatchForward(w1, "test_weaken.diff")
        test_result == RunTests(applied.w)
        weak_mapping == NormalizeMap(test_result.map, TFAILED)
        recovered_tests ==
            {k \in DOMAIN weak_mapping :
                /\ k \in DOMAIN bug_test_mapping
                /\ bug_test_mapping[k] = TFAILED
                /\ weak_mapping[k] = PASSED}
    IN  IF ~applied.ok \/ ~test_result.parsed
        THEN [passed |-> FALSE, w |-> applied.w]
        ELSE [passed |-> recovered_tests # {}, w |-> applied.w]

\* Step 7, the loop over ctx.changed_code_files in the order `files`;
\* acc = [w, non_contributing_files, harness_runs], harness_runs being the
\* file and the workspace of each run of the harness
RECURSIVE InverseMutationLoop(_, _, _, _)
InverseMutationLoop(files, acc, g, bug_test_mapping) ==
    IF files = <<>> THEN acc
    ELSE
        LET file_path == Head(files)
            w1 == PatchForward(acc.w, "bug_inject.diff").w
            w2 == CheckoutFile(w1, g.head, file_path)
            test_result == RunTests(w2)
            recovered ==
                \E t \in DOMAIN bug_test_mapping :
                    /\ bug_test_mapping[t] = TFAILED
                    /\ t \in DOMAIN test_result.map
                    /\ test_result.map[t] = PASSED
            next ==
                IF ~test_result.parsed
                THEN [w |-> w2, non_contributing_files |-> acc.non_contributing_files,
                      harness_runs |-> Append(acc.harness_runs,
                                              [file_path |-> file_path, w |-> w2])]
                ELSE [w |-> PatchReverse(w2, "bug_inject.diff").w,
                      non_contributing_files |->
                          IF recovered THEN acc.non_contributing_files
                          ELSE acc.non_contributing_files \cup {file_path},
                      harness_runs |-> Append(acc.harness_runs,
                                              [file_path |-> file_path, w |-> w2])]
        IN  InverseMutationLoop(Tail(files), next, g, bug_test_mapping)

ValidateInverseMutation(w, g, bug_test_mapping, files) ==
    IF files = <<>> \/ DOMAIN bug_test_mapping = {}
    THEN [passed |-> FALSE, w |-> w, non_contributing_files |-> {},
          harness_runs |-> <<>>]
    ELSE
        LET w1 == PatchReverse(w, "test_weaken.diff").w
            w2 == PatchReverse(w1, "bug_inject.diff").w
            out == InverseMutationLoop(
                       files, [w |-> w2, non_contributing_files |-> {},
                               harness_runs |-> <<>>],
                       g, bug_test_mapping)
        IN  [passed |-> out.non_contributing_files = {}, w |-> out.w,
             non_contributing_files |-> out.non_contributing_files,
             harness_runs |-> out.harness_runs]

\* Settings.min_passing_tests, min_changed_files, min_failing_tests (config.py)
SettingsMinPassingTests == 10
SettingsMinChangedFiles == 1
SettingsMinFailingTests == 1

\* InjectorAgent.__init__: "x or settings.x", so a threshold of 0 in the
\* episode configuration is replaced by the settings default
OrDefault(x, default) == IF x # 0 THEN x ELSE default

\* ArtifactMetadata as InjectorAgent._tool_submit_artifact fills it from the
\* thresholds the orchestrator passed to the injector
ArtifactMetadata(cfg) ==
    [min_passing_tests |-> OrDefault(cfg.min_passing_tests, SettingsMinPassingTests),
     min_changed_files |-> OrDefault(cfg.min_changed_files, SettingsMinChangedFiles),
     min_failing_tests |-> OrDefault(cfg.min_failing_tests, SettingsMinFailingTests)]

\* variant of BuildReport that reports every artifact valid
BuildReportAlwaysValid(steps, w) ==
    [valid |-> TRUE, steps |-> steps, w |-> w]

\* Validator._build_report
BuildReport(steps, w) ==
    [valid |-> \A i \in 1..Len(steps) : steps[i].passed, steps |-> steps, w |-> w]

\* the orders in which list(set) may enumerate the files a diff touches
Orders(S) ==
    {o \in [1..Cardinality(S) -> S] : \A i, j \in 1..Cardinality(S) : o[i] = o[j] => i = j}

\* the ValidationContext fields and step details a run has produced
EmptyContext ==
    [test_mapping |-> None, changed_code_files |-> None,
     bug_test_mapping |-> None, non_contributing_files |-> None,
     harness_runs |-> <<>>]

\* return self._build_report(...): the report, with the workspace and the
\* context the validator leaves behind
FinishReport(steps, w, ctx) ==
    [valid |-> BuildReport(steps, w).valid, steps |-> steps, w |-> w, ctx |-> ctx]

\* Validator.validate from step 7 on (if enabled)
ValidateFromStep7(vcfg, w, g, files, steps, ctx) ==
    IF ~vcfg.enable_inverse_mutation THEN FinishReport(steps, w, ctx)
    ELSE LET s7 == ValidateInverseMutation(w, g, ctx.bug_test_mapping, files)
         IN  FinishReport(
                 Append(steps, StepResult("inverse_mutation_testing", s7.passed)),
                 s7.w,
                 [ctx EXCEPT !.non_contributing_files = s7.non_contributing_files,
                             !.harness_runs = s7.harness_runs])

\* Validator.validate from step 6 on
ValidateFromStep6(art, vcfg, w, g, files, steps, ctx) ==
    LET s6 == ValidateTestWeakening(art, w, ctx.bug_test_mapping)
        r6 == Append(steps, StepResult("test_weakening_validity", s6.passed))
    IN  IF ~s6.passed THEN FinishReport(r6, s6.w, ctx)
        ELSE ValidateFromStep7(vcfg, s6.w, g, files, r6, ctx)

\* variant of ValidateFromStep5 that goes on to step 6 after a failed step 5
ValidateFromStep5NoReturn(art, cfg, vcfg, w, g, files, steps, ctx) ==
    LET s5 == ValidateBugValidity(art, cfg, w)
        r5 == Append(steps, StepResult("bug_validity", s5.passed))
        ctx5 == [ctx EXCEPT !.bug_test_mapping = s5.bug_test_mapping]
    IN  ValidateFromStep6(art, vcfg, s5.w, g, files, r5, ctx5)

\* Validator.validate from step 5 on
ValidateFromStep5(art, cfg, vcfg, w, g, files, steps, ctx) ==
    LET s5 == ValidateBugValidity(art, cfg, w)
        r5 == Append(steps, StepResult("bug_validity", s5.passed))
        ctx5 == [ctx EXCEPT !.bug_test_mapping = s5.bug_test_mapping]
    IN  IF ~s5.passed THEN FinishReport(r5, s5.w, ctx5)
        ELSE ValidateFromStep6(art, vcfg, s5.w, g, files, r5, ctx5)

\* Validator.validate from step 4 on
ValidateFromStep4(art, cfg, vcfg, w, g, files, steps, ctx) ==
    LET s4 == ValidateBugScope(art, cfg)
        r4 == Append(steps, StepResult("bug_scope", s4))
        ctx4 == [ctx EXCEPT !.changed_code_files = ParseDiffFiles(art.bug_inject_diff)]
    IN  IF ~s4 THEN FinishReport(r4, w, ctx4)
        ELSE ValidateFromStep5(art, cfg, vcfg, w, g, files, r4, ctx4)

\* Validator.validate from step 3 on
ValidateFromStep3(art, cfg, vcfg, w, g, files, steps, ctx) ==
    LET s3 == ValidateOriginalTests(cfg, ctx.test_mapping)
        r3 == Append(steps, StepResult("original_tests_pass", s3))
    IN  IF ~s3 THEN FinishReport(r3, w, ctx)
        ELSE ValidateFromStep4(art, cfg, vcfg, w, g, files, r3, ctx)

\* Validator.validate from step 2 on
ValidateFromStep2(art, cfg, vcfg, w, g, files, steps, ctx) ==
    LET s2 == ValidateParser(art, w)
        r2 == Append(steps, StepResult("parser_validity", s2.passed))
        ctx2 == [ctx EXCEPT !.test_mapping = s2.test_mapping]
    IN  IF ~s2.passed THEN FinishReport(r2, s2.w, ctx2)
        ELSE ValidateFromStep3(art, cfg, vcfg, s2.w, g, files, r2, ctx2)

\* Validator.validate; `files` is ctx.changed_code_files as a list.  The
\* result carries the report and the workspace the validator leaves behind.
Validate(art, cfg, vcfg, w, g, files) ==
    LET s1 == ValidateTestFilesExistence(art, w)
        r1 == <<StepResult("test_files_existence", s1.passed)>>
    IN  IF ~s1.passed THEN FinishReport(r1, w, EmptyContext)
        ELSE ValidateFromStep2(art, cfg, vcfg, w, g, files, r1, EmptyContext)

(***************************************************************************)
(* The reward engine: RewardCalculator (orchestrator.py).                  *)
(***************************************************************************)
\* variant of compute_injector_reward without the s = 0 / s = 1 case
compute_injector_reward_linear(alpha, valid, solve_rate) ==
    IF ~valid THEN Rat(-1, 1)
    ELSE RatSub(Rat(1, 1), RatMul(RatAdd(Rat(1, 1), alpha), solve_rate))

compute_injector_reward(alpha, valid, solve_rate) ==
    IF ~valid THEN Rat(-1, 1)
    ELSE IF RatEq(solve_rate, Rat(0, 1)) \/ RatEq(solve_rate, Rat(1, 1))
    THEN RatNeg(alpha)
    ELSE RatSub(Rat(1, 1), RatMul(RatAdd(Rat(1, 1), alpha), solve_rate))

compute_solver_reward(success) == IF success THEN Rat(1, 1) ELSE Rat(-1, 1)

(***************************************************************************)
(* State.                                                                  *)
(***************************************************************************)
VARIABLES
    db,                  \* the persisted EpisodeDB row
    episode,             \* the orchestrator's EpisodeDB object (its session)
    config,              \* EpisodeConfig of the episode
    validator_config,    \* the ValidatorConfig settings singleton
    pc,                  \* where run_episode / _run_pipeline stands
    sandbox,             \* "none", "started", "stopped" or "orphaned"
    ws,                  \* the sandbox workspace
    git,                 \* the sandbox's git repository
    artifact,            \* the BugArtifact the injector submitted, or None
    validation_report,   \* the ValidationReport, or None
    attempt_num,         \* loop variable of the solver loop
    successful_attempts, \* local of _run_pipeline
    solver_attempts,     \* local list of _run_pipeline
    attempt,             \* the SolverAttempt of the current iteration, or None
    evaluation,          \* the EvaluationReport of the current attempt, or None
    attempts_db,         \* the persisted SolverAttemptDB rows
    buggy_ws,            \* the workspace each solver attempt started from
    cancel_pc,           \* where the cancel_episode request stands
    cancel_seen,         \* the status cancel_episode read
    cancel_requests,     \* cancel requests made so far
    cancelled_at,        \* statuses read by the cancel requests that succeeded
    last_edit,           \* the solver's last edit_file call and its result, or None
    edit_count,          \* edit_file calls of the current solver run
    agent,               \* the agent run in progress: its loop state, history and trace
    pool,                \* the SandboxPool: its fields and the sandboxes it started
    calc,                \* a reward computation: its inputs and, once made, its results
    oracle,              \* a test-weakening diff and the oracle patch made from it
    container            \* the commands running in the sandbox container and the bash call awaited

vars ==
    <<db, episode, config, validator_config, pc, sandbox, ws, git, artifact, validation_report,
      attempt_num, successful_attempts, solver_attempts, attempt, evaluation,
      attempts_db, buggy_ws, cancel_pc, cancel_seen, cancel_requests, cancelled_at,
      last_edit, edit_count, agent, pool, calc, oracle, container>>

orch_vars ==
    <<episode, config, validator_config, pc, sandbox, ws, git, artifact, validation_report,
      attempt_num, successful_attempts, solver_attempts, attempt, evaluation,
      attempts_db, buggy_ws, last_edit, edit_count, agent, pool, calc, oracle, container>>

cancel_vars == <<cancel_pc, cancel_seen, cancel_requests, cancelled_at>>

tool_vars == <<last_edit, edit_count, agent, pool, calc, oracle, container>>

\* a started container in which no command has run: `awaiting` is the command
\* of the Sandbox.bash call that has not returned (0: none), `procs` the
\* commands executing in the container, `files` the last command that wrote
\* each file (0: none), `results` the BashResults returned so far
NewContainer ==
    [calls |-> 0, awaiting |-> 0, procs |-> <<>>,
     files |-> [f \in {"src/util.py", "notes.txt"} |-> 0], results |-> <<>>]

\* no oracle patch under construction
NoOracle ==
    [baseline |-> <<>>, weakened |-> <<>>, test_weaken_diff |-> <<>>,
     oracle_test_patch |-> <<>>, done |-> FALSE]

\* no reward computation under way
NoCalc ==
    [alpha |-> Rat(8, 10), valid |-> TRUE, n |-> 1, k |-> 0, k2 |-> 0, done |-> FALSE,
     r |-> Rat(0, 1), r2 |-> Rat(0, 1), inline |-> Rat(0, 1), inline2 |-> Rat(0, 1)]

\* the images sandboxes are asked for, and the Sandbox objects the pool makes
PoolImages == {"image_a", "image_b"}

SandboxIds == 1..MaxPoolCreated

\* SandboxPool.__init__: _available, _in_use; started holds the sandboxes
\* whose container is running, image_ref the image of each sandbox made,
\* last the last call and how it ended
NewPool ==
    [in_use |-> {}, available |-> [i \in PoolImages |-> <<>>], started |-> {},
     image_ref |-> <<>>, last |-> None]

\* the fields of an agent object (InjectorAgent / SolverAgent __init__ and
\* the start of run): _messages, _tool_calls, _submitted, _total_tokens,
\* _artifact, _pred_patch; step counts the loop iterations, requests holds
\* what each gateway request carried, executed counts the tool calls
\* executed, last describes the last of them
NewAgent(role, messages) ==
    [role |-> role, step |-> 0, messages |-> messages, requests |-> <<>>,
     tool_calls |-> <<>>, executed |-> 0, submitted |-> FALSE,
     total_tokens |-> 0, artifact |-> None, pred_patch |-> <<>>, last |-> None]

\* reward_alpha values (tenths), EpisodeConfig.reward_alpha defaults to 0.8
Alphas == {Rat(5, 10), Rat(8, 10), Rat(10, 10)}

\* EpisodeDB.error_message when it is NULL
NoMessage == "NULL"

\* the row create_episode inserts
NewEpisodeRow ==
    [status |-> PENDING, error_message |-> NoMessage, artifact_id |-> None,
     validation_report_id |-> None, solve_rate |-> None, r_inject |-> None,
     r_solve_avg |-> None]

\* the state after create_episode, for an episode configuration of
\* `configs` and validator settings of `settings`
InitWithInputs(configs, settings, calcs, oracles) ==
    /\ db = NewEpisodeRow
    /\ episode = NewEpisodeRow
    /\ config \in configs
    /\ validator_config \in settings
    /\ pc = "start"
    /\ sandbox = "none"
    /\ ws = EmptyTree
    /\ git = GitInit
    /\ artifact = None
    /\ validation_report = None
    /\ attempt_num = 0
    /\ successful_attempts = 0
    /\ solver_attempts = <<>>
    /\ attempt = None
    /\ evaluation = None
    /\ attempts_db = <<>>
    /\ buggy_ws = <<>>
    /\ cancel_pc = "idle"
    /\ cancel_seen = PENDING
    /\ cancel_requests = 0
    /\ cancelled_at = {}
    /\ last_edit = None
    /\ edit_count = 0
    /\ agent = NewAgent("none", <<>>)
    /\ pool = NewPool
    /\ calc \in calcs
    /\ oracle \in oracles
    /\ container = NewContainer

InitWith(configs, settings) == InitWithInputs(configs, settings, {NoCalc}, {NoOracle})

Init ==
    InitWith([solver_attempts : 0..MaxSolverAttempts,
              reward_alpha : Alphas,
              min_passing_tests : {2},
              min_changed_files : {1},
              min_failing_tests : {1}],
             {[enable_inverse_mutation |-> EnableInverseMutation]})

(***************************************************************************)
(* cancel_episode (api.py): the row is read, then written, in a session of *)
(* its own; the orchestrator may commit between the two.                   *)
(***************************************************************************)
CancelLoad ==
    /\ cancel_pc = "idle"
    /\ cancel_requests < MaxCancelRequests
    /\ cancel_requests' = cancel_requests + 1
    /\ cancel_seen' = db.status
    /\ cancel_pc' = "loaded"
    /\ UNCHANGED <<db, cancelled_at>>
    /\ UNCHANGED orch_vars

\* status in [COMPLETE, FAILED]: HTTP 400
CancelReject ==
    /\ cancel_pc = "loaded"
    /\ cancel_seen \in {COMPLETE, FAILED}
    /\ cancel_pc' = "idle"
    /\ UNCHANGED <<db, cancel_seen, cancel_requests, cancelled_at>>
    /\ UNCHANGED orch_vars

\* episode.status = CANCELLED; commit
CancelCommit ==
    /\ cancel_pc = "loaded"
    /\ cancel_seen \notin {COMPLETE, FAILED}
    /\ db' = [db EXCEPT !.status = CANCELLED]
    /\ cancelled_at' = cancelled_at \cup {cancel_seen}
    /\ cancel_pc' = "idle"
    /\ UNCHANGED <<cancel_seen, cancel_requests>>
    /\ UNCHANGED orch_vars

(***************************************************************************)
(* EpisodeOrchestrator.run_episode and _run_pipeline (orchestrator.py).    *)
(***************************************************************************)
\* Sandbox.stop through __aexit__: the container is stopped and removed, or
\* container.stop raises, the exception is logged and the container is left
\* as it is ("orphaned": still there, with _started reset to False)
StopSandbox == IF sandbox = "started" THEN {"stopped", "orphaned"} ELSE {sandbox}

\* _fail_episode, also reached through run_episode's exception handler: the
\* async with block has been left, so the sandbox is stopped first
FailEpisode(error_message) ==
    /\ episode' = [episode EXCEPT !.status = FAILED, !.error_message = error_message]
    /\ db' = [db EXCEPT !.status = FAILED, !.error_message = error_message]
    /\ sandbox' \in StopSandbox
    /\ pc' = "done"

\* run_episode: load the row; return when it is already cancelled; commit
\* started_at
LoadEpisode ==
    /\ pc = "start"
    /\ episode' = db
    /\ pc' = IF db.status = CANCELLED THEN "done" ELSE "loaded"
    /\ UNCHANGED <<db, config, validator_config, sandbox, ws, git, artifact, validation_report,
                   attempt_num, successful_attempts, solver_attempts, attempt,
                   evaluation, attempts_db, buggy_ws>>
    /\ UNCHANGED cancel_vars
    /\ UNCHANGED tool_vars

\* Phase 1: episode.status = INJECTING; commit
BeginInjection ==
    /\ pc = "loaded"
    /\ episode' = [episode EXCEPT !.status = INJECTING]
    /\ db' = [db EXCEPT !.status = INJECTING]
    /\ pc' = "sandbox"
    /\ UNCHANGED <<config, validator_config, sandbox, ws, git, artifact, validation_report,
                   attempt_num, successful_attempts, solver_attempts, attempt,
                   evaluation, attempts_db, buggy_ws>>
    /\ UNCHANGED cancel_vars
    /\ UNCHANGED tool_vars

\* async with Sandbox(...): start; git_init; git_tag("ssr-original")
SandboxStart ==
    /\ pc = "sandbox"
    /\ sandbox' = "started"
    /\ ws' = RepoImage
    /\ git' = GitTag(GitInit, RepoImage, "ssr-original")
    /\ pc' = "inject"
    /\ UNCHANGED <<db, episode, config, validator_config, artifact, validation_report,
                   attempt_num, successful_attempts, solver_attempts, attempt,
                   evaluation, attempts_db, buggy_ws>>
    /\ UNCHANGED cancel_vars
    /\ UNCHANGED tool_vars

\* Sandbox.start raises RuntimeError (image not found, Docker API error)
SandboxStartFails ==
    /\ pc = "sandbox"
    /\ FailEpisode("Docker image not found")
    /\ UNCHANGED <<config, validator_config, ws, git, artifact, validation_report,
                   attempt_num, successful_attempts, solver_attempts, attempt,
                   evaluation, attempts_db, buggy_ws>>
    /\ UNCHANGED cancel_vars
    /\ UNCHANGED tool_vars

(***************************************************************************)
(* The injector agent, seen from the orchestrator: it acts on the sandbox  *)
(* through its tools and returns an artifact or None, or raises.           *)
(***************************************************************************)
MkArtifact(bug, weaken) ==
    [test_script |-> "script", test_files |-> {TestFile}, test_parser |-> "parser",
     bug_inject_diff |-> bug, test_weaken_diff |-> weaken]

Artifacts ==
    {MkArtifact("bug_src", "weaken_test"), MkArtifact("bug_src_lib", "weaken_test"),
     MkArtifact("bug_lib", "weaken_test"), MkArtifact("bug_src", "weaken_src")}

\* what the injector leaves in the sandbox: nothing, its trial edits and a
\* scratch file, or the same committed to the repository
Leftovers == {"clean", "dirty", "committed"}

InjectorWorkspace(w, art, leftover) ==
    IF leftover = "clean" THEN w
    ELSE LET w1 == ApplyHunks(w, PatchOf(art.bug_inject_diff)).w
             w2 == ApplyHunks(w1, PatchOf(art.test_weaken_diff)).w
         IN  WriteFile(w2, NotesFile, "scratch")

InjectorGit(g, w, leftover) ==
    IF leftover = "committed"
    THEN [g EXCEPT !.head = [exists |-> TRUE, tree |-> w], !.commits = @ + 1]
    ELSE g

\* artifact = await injector.run(); _store_artifact; episode.artifact_id;
\* commit, for an injector that submits one of `artifacts`
InjectorSubmitsFrom(artifacts) ==
    /\ pc = "inject"
    /\ \E art \in artifacts, leftover \in Leftovers :
          /\ artifact' = art
          /\ ws' = InjectorWorkspace(ws, art, leftover)
          /\ git' = InjectorGit(git, InjectorWorkspace(ws, art, leftover), leftover)
    /\ episode' = [episode EXCEPT !.artifact_id = "artifact"]
    /\ db' = [db EXCEPT !.artifact_id = "artifact"]
    /\ pc' = "injected"
    /\ UNCHANGED <<config, validator_config, sandbox, validation_report, attempt_num,
                   successful_attempts, solver_attempts, attempt, evaluation,
                   attempts_db, buggy_ws>>
    /\ UNCHANGED cancel_vars
    /\ UNCHANGED tool_vars

InjectorSubmits == InjectorSubmitsFrom(Artifacts)

\* variant of InjectorGivesUp that treats the missing artifact as an invalid
\* one: COMPLETE with r_inject = -1
InjectorGivesUpCompletes ==
    /\ pc = "inject"
    /\ episode' = [episode EXCEPT !.r_inject = Rat(-1, 1), !.status = COMPLETE]
    /\ db' = [db EXCEPT !.r_inject = Rat(-1, 1), !.status = COMPLETE]
    /\ sandbox' \in StopSandbox
    /\ pc' = "done"
    /\ UNCHANGED <<config, validator_config, ws, git, artifact, validation_report, attempt_num,
                   successful_attempts, solver_attempts, attempt, evaluation,
                   attempts_db, buggy_ws>>
    /\ UNCHANGED cancel_vars
    /\ UNCHANGED tool_vars

\* injector.run() returned None (step budget exhausted without submission)
InjectorGivesUp ==
    /\ pc = "inject"
    /\ FailEpisode("Injector failed to produce artifact")
    /\ UNCHANGED <<config, validator_config, ws, git, artifact, validation_report, attempt_num,
                   successful_attempts, solver_attempts, attempt, evaluation,
                   attempts_db, buggy_ws>>
    /\ UNCHANGED cancel_vars
    /\ UNCHANGED tool_vars

\* injector.run() raised (model gateway failure)
InjectorRaises ==
    /\ pc = "inject"
    /\ FailEpisode("gateway error")
    /\ UNCHANGED <<config, validator_config, ws, git, artifact, validation_report, attempt_num,
                   successful_attempts, solver_attempts, attempt, evaluation,
                   attempts_db, buggy_ws>>
    /\ UNCHANGED cancel_vars
    /\ UNCHANGED tool_vars

\* Phase 2: episode.status = VALIDATING; commit
BeginValidation ==
    /\ pc = "injected"
    /\ episode' = [episode EXCEPT !.status = VALIDATING]
    /\ db' = [db EXCEPT !.status = VALIDATING]
    /\ pc' = "validate"
    /\ UNCHANGED <<config, validator_config, sandbox, ws, git, artifact, validation_report,
                   attempt_num, successful_attempts, solver_attempts, attempt,
                   evaluation, attempts_db, buggy_ws>>
    /\ UNCHANGED cancel_vars
    /\ UNCHANGED tool_vars

\* git checkout ssr-original -- . ; validator.validate(artifact);
\* _store_validation_report; episode.validation_report_id; commit
RunValidator ==
    /\ pc = "validate"
    /\ \E files \in Orders(ParseDiffFiles(artifact.bug_inject_diff)) :
          LET w0 == CheckoutAll(ws, git.tags["ssr-original"])
              rep == Validate(artifact, ArtifactMetadata(config), validator_config,
                              w0, git, files)
          IN  /\ validation_report' =
                    [valid |-> rep.valid, steps |-> rep.steps, ctx |-> rep.ctx,
                     error_message |-> NoMessage]
              /\ ws' = rep.w
    /\ episode' = [episode EXCEPT !.validation_report_id = "report"]
    /\ db' = [db EXCEPT !.validation_report_id = "report"]
    /\ pc' = "validated"
    /\ UNCHANGED <<config, validator_config, sandbox, git, artifact, attempt_num,
                   successful_attempts, solver_attempts, attempt, evaluation,
                   attempts_db, buggy_ws>>
    /\ UNCHANGED cancel_vars
    /\ UNCHANGED tool_vars

\* the same with Sandbox.write_file raising IOError in step 2
\* (_validate_parser): the step's "except Exception" turns the exception into
\* a failed step whose error_message is the exception's text
RunValidatorSandboxError ==
    /\ pc = "validate"
    /\ LET w0 == CheckoutAll(ws, git.tags["ssr-original"])
           s1 == ValidateTestFilesExistence(artifact, w0)
           rep == FinishReport(<<StepResult("test_files_existence", s1.passed),
                                 StepResult("parser_validity", FALSE)>>,
                               w0, EmptyContext)
       IN  /\ s1.passed
           /\ validation_report' =
                 [valid |-> rep.valid, steps |-> rep.steps, ctx |-> rep.ctx,
                  error_message |-> "Cannot write file"]
           /\ ws' = rep.w
    /\ episode' = [episode EXCEPT !.validation_report_id = "report"]
    /\ db' = [db EXCEPT !.validation_report_id = "report"]
    /\ pc' = "validated"
    /\ UNCHANGED <<config, validator_config, sandbox, git, artifact, attempt_num,
                   successful_attempts, solver_attempts, attempt, evaluation,
                   attempts_db, buggy_ws>>
    /\ UNCHANGED cancel_vars
    /\ UNCHANGED tool_vars

\* if not validation_report.valid: r_inject = -1.0; status = COMPLETE; commit
CompleteInvalid ==
    /\ pc = "validated"
    /\ ~validation_report.valid
    /\ episode' = [episode EXCEPT !.r_inject = Rat(-1, 1), !.status = COMPLETE]
    /\ db' = [db EXCEPT !.r_inject = Rat(-1, 1), !.status = COMPLETE]
    /\ sandbox' \in StopSandbox
    /\ pc' = "done"
    /\ UNCHANGED <<config, validator_config, ws, git, artifact, validation_report, attempt_num,
                   successful_attempts, solver_attempts, attempt, evaluation,
                   attempts_db, buggy_ws>>
    /\ UNCHANGED cancel_vars
    /\ UNCHANGED tool_vars

\* variant of BeginSolving that does not look at validation_report.valid
BeginSolvingWhateverReport ==
    /\ pc = "validated"
    /\ episode' = [episode EXCEPT !.status = SOLVING]
    /\ db' = [db EXCEPT !.status = SOLVING]
    /\ attempt_num' = 1
    /\ pc' = IF 1 <= config.solver_attempts THEN "prepare" ELSE "solved"
    /\ UNCHANGED <<config, validator_config, sandbox, ws, git, artifact, validation_report,
                   successful_attempts, solver_attempts, attempt, evaluation,
                   attempts_db, buggy_ws>>
    /\ UNCHANGED cancel_vars
    /\ UNCHANGED tool_vars

\* Phase 3: episode.status = SOLVING; commit; enter the solver loop
BeginSolving ==
    /\ pc = "validated"
    /\ validation_report.valid
    /\ episode' = [episode EXCEPT !.status = SOLVING]
    /\ db' = [db EXCEPT !.status = SOLVING]
    /\ attempt_num' = 1
    /\ pc' = IF 1 <= config.solver_attempts THEN "prepare" ELSE "solved"
    /\ UNCHANGED <<config, validator_config, sandbox, ws, git, artifact, validation_report,
                   successful_attempts, solver_attempts, attempt, evaluation,
                   attempts_db, buggy_ws>>
    /\ UNCHANGED cancel_vars
    /\ UNCHANGED tool_vars

(***************************************************************************)
(* The solver loop.                                                        *)
(***************************************************************************)
\* variant of _prepare_buggy_sandbox that tags the buggy state on top of the
\* existing repository instead of a fresh one
PrepareBuggyKeepHistory(art, w, g) ==
    LET w0 == CheckoutAll(w, g.tags["ssr-original"])
        w1 == PatchForward(WriteFile(w0, "bug_inject.diff", art.bug_inject_diff),
                           "bug_inject.diff").w
        w2 == PatchForward(WriteFile(w1, "test_weaken.diff", art.test_weaken_diff),
                           "test_weaken.diff").w
        w3 == WriteFile(WriteFile(WriteFile(w2, "test_script.sh", art.test_script),
                                  "test_parser.py", art.test_parser),
                        "test_files.txt", "list")
    IN  [w |-> w3, g |-> GitTag(g, w3, "ssr-buggy")]

\* _prepare_buggy_sandbox
PrepareBuggy(art, w, g) ==
    LET w0 == CheckoutAll(w, g.tags["ssr-original"])
        w1 == PatchForward(WriteFile(w0, "bug_inject.diff", art.bug_inject_diff),
                           "bug_inject.diff").w
        w2 == PatchForward(WriteFile(w1, "test_weaken.diff", art.test_weaken_diff),
                           "test_weaken.diff").w
        w3 == WriteFile(WriteFile(WriteFile(w2, "test_script.sh", art.test_script),
                                  "test_parser.py", art.test_parser),
                        "test_files.txt", "list")
    IN  [w |-> w3, g |-> GitTag(GitInit, w3, "ssr-buggy")]

PrepareBuggySandbox ==
    /\ pc = "prepare"
    /\ LET out == PrepareBuggy(artifact, ws, git)
       IN  /\ ws' = out.w
           /\ git' = out.g
           /\ buggy_ws' = Append(buggy_ws, out.w)
    /\ pc' = "solve"
    /\ UNCHANGED <<db, episode, config, validator_config, sandbox, artifact, validation_report,
                   attempt_num, successful_attempts, solver_attempts, attempt,
                   evaluation, attempts_db>>
    /\ UNCHANGED cancel_vars
    /\ UNCHANGED tool_vars

\* What a solver run does, seen from the orchestrator: `edit` is the diff of
\* the edits it made in the workspace, `pred` the patch it submitted ("" when
\* it submitted none)
SolverOutcomes ==
    {[pred |-> "", edit |-> ""], [pred |-> "", edit |-> "pred_fix"],
     [pred |-> "pred_fix", edit |-> "pred_fix"],
     [pred |-> "pred_revert", edit |-> "pred_revert"],
     [pred |-> "pred_junk", edit |-> "pred_junk"],
     [pred |-> "pred_junk_cheat", edit |-> "pred_junk_cheat"],
     [pred |-> "pred_stale", edit |-> ""],
     [pred |-> "pred_rig_parser", edit |-> "pred_rig_parser"]}

\* SolverAgent.run: the SolverAttempt it returns
NewAttempt(n, pred) ==
    [attempt_number |-> n, pred_patch |-> pred, success |-> FALSE,
     test_summary |-> [passed |-> 0, failed |-> 0]]

SolverRuns ==
    /\ pc = "solve"
    /\ \E o \in SolverOutcomes :
          /\ ws' = ApplyHunks(ws, PatchOf(o.edit)).w
          /\ attempt' = NewAttempt(attempt_num, o.pred)
    /\ evaluation' = None
    /\ pc' = "evaluate"
    /\ UNCHANGED <<db, episode, config, validator_config, sandbox, git, artifact, validation_report,
                   attempt_num, successful_attempts, solver_attempts,
                   attempts_db, buggy_ws>>
    /\ UNCHANGED cancel_vars
    /\ UNCHANGED tool_vars

\* solver.run() raised (model gateway failure)
SolverRaises ==
    /\ pc = "solve"
    /\ FailEpisode("gateway error")
    /\ UNCHANGED <<config, validator_config, ws, git, artifact, validation_report, attempt_num,
                   successful_attempts, solver_attempts, attempt, evaluation,
                   attempts_db, buggy_ws>>
    /\ UNCHANGED cancel_vars
    /\ UNCHANGED tool_vars

\* variant of EvaluateAttempt that calls an attempt successful as soon as one
\* test passed
EvaluateAttemptAnyPassed(art, w, g, pred) ==
    LET w0 == CheckoutAll(w, g.tags["ssr-buggy"])
        applied == PatchForward(WriteFile(w0, "pred_patch.diff", pred), "pred_patch.diff")
        w1 == CheckoutFiles(applied.w, g.tags["ssr-original"], art.test_files)
        test_result == RunTests(w1)
        passed == Cardinality({k \in DOMAIN test_result.map : test_result.map[k] = PASSED})
        failed == Cardinality({k \in DOMAIN test_result.map : test_result.map[k] # PASSED})
    IN  IF ~applied.ok
        THEN [success |-> FALSE, tests_passed |-> 0, tests_failed |-> 0,
              ran |-> FALSE, w |-> applied.w]
        ELSE IF ~test_result.parsed
        THEN [success |-> FALSE, tests_passed |-> 0, tests_failed |-> 0,
              ran |-> TRUE, w |-> w1]
        ELSE [success |-> passed > 0, tests_passed |-> passed, tests_failed |-> failed,
              ran |-> TRUE, w |-> w1]

\* variant of EvaluateAttempt that needs at least one test in the parsed map
EvaluateAttemptNonEmpty(art, w, g, pred) ==
    LET w0 == CheckoutAll(w, g.tags["ssr-buggy"])
        applied == PatchForward(WriteFile(w0, "pred_patch.diff", pred), "pred_patch.diff")
        w1 == CheckoutFiles(applied.w, g.tags["ssr-original"], art.test_files)
        test_result == RunTests(w1)
        passed == Cardinality({k \in DOMAIN test_result.map : test_result.map[k] = PASSED})
        failed == Cardinality({k \in DOMAIN test_result.map : test_result.map[k] # PASSED})
    IN  IF ~applied.ok
        THEN [success |-> FALSE, tests_passed |-> 0, tests_failed |-> 0,
              ran |-> FALSE, w |-> applied.w]
        ELSE IF ~test_result.parsed
        THEN [success |-> FALSE, tests_passed |-> 0, tests_failed |-> 0,
              ran |-> TRUE, w |-> w1]
        ELSE [success |-> failed = 0 /\ passed > 0, tests_passed |-> passed,
              tests_failed |-> failed, ran |-> TRUE, w |-> w1]

\* _evaluate_attempt: the EvaluationReport, with the workspace the harness
\* ran on (ran = the harness was run)
EvaluateAttempt(art, w, g, pred) ==
    LET w0 == CheckoutAll(w, g.tags["ssr-buggy"])
        applied == PatchForward(WriteFile(w0, "pred_patch.diff", pred), "pred_patch.diff")
        w1 == CheckoutFiles(applied.w, g.tags["ssr-original"], art.test_files)
        test_result == RunTests(w1)
        passed == Cardinality({k \in DOMAIN test_result.map : test_result.map[k] = PASSED})
        failed == Cardinality({k \in DOMAIN test_result.map : test_result.map[k] # PASSED})
    IN  IF ~applied.ok
        THEN [success |-> FALSE, tests_passed |-> 0, tests_failed |-> 0,
              ran |-> FALSE, w |-> applied.w]
        ELSE IF ~test_result.parsed
        THEN [success |-> FALSE, tests_passed |-> 0, tests_failed |-> 0,
              ran |-> TRUE, w |-> w1]
        ELSE [success |-> failed = 0, tests_passed |-> passed, tests_failed |-> failed,
              ran |-> TRUE, w |-> w1]

\* variant of EvaluateStep that evaluates every attempt, with or without a
\* submitted patch (_evaluate_attempt skips the apply when there is none)
EvaluateStepAlways ==
    /\ pc = "evaluate"
    /\ LET w0 == CheckoutAll(ws, git.tags["ssr-buggy"])
           ev == IF attempt.pred_patch # ""
                 THEN EvaluateAttempt(artifact, ws, git, attempt.pred_patch)
                 ELSE LET w1 == CheckoutFiles(w0, git.tags["ssr-original"],
                                              artifact.test_files)
                          r == RunTests(w1)
                          passed == Cardinality({k \in DOMAIN r.map : r.map[k] = PASSED})
                          failed == Cardinality({k \in DOMAIN r.map : r.map[k] # PASSED})
                      IN  [success |-> r.parsed /\ failed = 0, tests_passed |-> passed,
                           tests_failed |-> failed, ran |-> TRUE, w |-> w1]
       IN  /\ evaluation' = [success |-> ev.success, tests_passed |-> ev.tests_passed,
                              tests_failed |-> ev.tests_failed, ran |-> ev.ran]
           /\ ws' = ev.w
           /\ attempt' = [attempt EXCEPT
                             !.success = ev.success,
                             !.test_summary = [passed |-> ev.tests_passed,
                                               failed |-> ev.tests_failed]]
           /\ successful_attempts' =
                 IF ev.success THEN successful_attempts + 1 ELSE successful_attempts
    /\ pc' = "store"
    /\ UNCHANGED <<db, episode, config, validator_config, sandbox, git, artifact, validation_report,
                   attempt_num, solver_attempts, attempts_db, buggy_ws>>
    /\ UNCHANGED cancel_vars
    /\ UNCHANGED tool_vars

\* Phase 4: if attempt.pred_patch: evaluate, set attempt.success
EvaluateStep ==
    /\ pc = "evaluate"
    /\ IF attempt.pred_patch # ""
       THEN LET ev == EvaluateAttempt(artifact, ws, git, attempt.pred_patch)
            IN  /\ evaluation' = [success |-> ev.success, tests_passed |-> ev.tests_passed,
                                   tests_failed |-> ev.tests_failed, ran |-> ev.ran]
                /\ ws' = ev.w
                /\ attempt' = [attempt EXCEPT
                                  !.success = ev.success,
                                  !.test_summary = [passed |-> ev.tests_passed,
                                                    failed |-> ev.tests_failed]]
                /\ successful_attempts' =
                      IF ev.success THEN successful_attempts + 1 ELSE successful_attempts
       ELSE UNCHANGED <<evaluation, ws, attempt, successful_attempts>>
    /\ pc' = "store"
    /\ UNCHANGED <<db, episode, config, validator_config, sandbox, git, artifact, validation_report,
                   attempt_num, solver_attempts, attempts_db, buggy_ws>>
    /\ UNCHANGED cancel_vars
    /\ UNCHANGED tool_vars

\* variant of AttemptRow that stores the solver's own success flag (False)
\* rather than the evaluated one
AttemptRowUnevaluated(a) ==
    [attempt_number |-> a.attempt_number, success |-> FALSE,
     has_pred_patch_ref |-> a.pred_patch # ""]

\* _store_solver_attempt: the SolverAttemptDB row
AttemptRow(a) ==
    [attempt_number |-> a.attempt_number, success |-> a.success,
     has_pred_patch_ref |-> a.pred_patch # ""]

\* variant of StoreAttempt that keeps the attempt in memory only, leaving
\* the rows to be written after the last attempt
StoreAttemptDeferred ==
    /\ pc = "store"
    /\ solver_attempts' = Append(solver_attempts, attempt)
    /\ ws' = CheckoutAll(ws, git.tags["ssr-original"])
    /\ attempt_num' = attempt_num + 1
    /\ pc' = IF attempt_num + 1 <= config.solver_attempts THEN "prepare" ELSE "solved"
    /\ UNCHANGED <<db, episode, config, validator_config, sandbox, git, artifact, validation_report,
                   successful_attempts, attempt, evaluation, attempts_db, buggy_ws>>
    /\ UNCHANGED cancel_vars
    /\ UNCHANGED tool_vars

\* _store_solver_attempt (commit); solver_attempts.append;
\* git checkout ssr-original -- . ; next iteration
StoreAttempt ==
    /\ pc = "store"
    /\ attempts_db' = Append(attempts_db, AttemptRow(attempt))
    /\ solver_attempts' = Append(solver_attempts, attempt)
    /\ ws' = CheckoutAll(ws, git.tags["ssr-original"])
    /\ attempt_num' = attempt_num + 1
    /\ pc' = IF attempt_num + 1 <= config.solver_attempts THEN "prepare" ELSE "solved"
    /\ UNCHANGED <<db, episode, config, validator_config, sandbox, git, artifact, validation_report,
                   successful_attempts, attempt, evaluation, buggy_ws>>
    /\ UNCHANGED cancel_vars
    /\ UNCHANGED tool_vars

(***************************************************************************)
(* Phase 5: metrics and rewards.                                           *)
(***************************************************************************)
\* episode.status = EVALUATING; commit
BeginEvaluating ==
    /\ pc = "solved"
    /\ episode' = [episode EXCEPT !.status = EVALUATING]
    /\ db' = [db EXCEPT !.status = EVALUATING]
    /\ pc' = "rewards"
    /\ UNCHANGED <<config, validator_config, sandbox, ws, git, artifact, validation_report,
                   attempt_num, successful_attempts, solver_attempts, attempt,
                   evaluation, attempts_db, buggy_ws>>
    /\ UNCHANGED cancel_vars
    /\ UNCHANGED tool_vars

\* solve_rate = successful_attempts / config.solver_attempts
SolveRate(successes, n) == Rat(successes, n)

\* variant of InjectorReward without the s = 0 / s = 1 branch
InjectorRewardNoBoundary(alpha, solve_rate) ==
    RatSub(Rat(1, 1), RatMul(RatAdd(Rat(1, 1), alpha), solve_rate))

\* the injector reward as _run_pipeline computes it in line
InjectorReward(alpha, solve_rate) ==
    IF RatEq(solve_rate, Rat(0, 1)) \/ RatEq(solve_rate, Rat(1, 1))
    THEN RatNeg(alpha)
    ELSE RatSub(Rat(1, 1), RatMul(RatAdd(Rat(1, 1), alpha), solve_rate))

RECURSIVE SumRewards(_)
SumRewards(attempts) ==
    IF attempts = <<>> THEN 0
    ELSE (IF Head(attempts).success THEN 1 ELSE -1) + SumRewards(Tail(attempts))

\* variant of AverageSolverReward that scores a failed attempt 0
AverageSolverRewardFailuresZero(attempts) ==
    Rat(Cardinality({i \in 1..Len(attempts) : attempts[i].success}), Len(attempts))

\* r_solve_avg = sum(r_solve_values) / len(r_solve_values)
AverageSolverReward(attempts) == Rat(SumRewards(attempts), Len(attempts))

\* solve_rate, r_inject, r_solve_avg; status = COMPLETE; commit
ComputeRewards ==
    /\ pc = "rewards"
    /\ config.solver_attempts # 0
    /\ LET solve_rate == SolveRate(successful_attempts, config.solver_attempts)
           r_inject == InjectorReward(config.reward_alpha, solve_rate)
           r_solve_avg == AverageSolverReward(solver_attempts)
       IN  /\ episode' = [episode EXCEPT !.solve_rate = solve_rate,
                             !.r_inject = r_inject, !.r_solve_avg = r_solve_avg,
                             !.status = COMPLETE]
           /\ db' = [db EXCEPT !.solve_rate = solve_rate,
                        !.r_inject = r_inject, !.r_solve_avg = r_solve_avg,
                        !.status = COMPLETE]
    /\ sandbox' \in StopSandbox
    /\ pc' = "done"
    /\ UNCHANGED <<config, validator_config, ws, git, artifact, validation_report, attempt_num,
                   successful_attempts, solver_attempts, attempt, evaluation,
                   attempts_db, buggy_ws>>
    /\ UNCHANGED cancel_vars
    /\ UNCHANGED tool_vars

\* solver_attempts = 0: successful_attempts / 0 raises ZeroDivisionError
RewardsDivideByZero ==
    /\ pc = "rewards"
    /\ config.solver_attempts = 0
    /\ FailEpisode("division by zero")
    /\ UNCHANGED <<config, validator_config, ws, git, artifact, validation_report, attempt_num,
                   successful_attempts, solver_attempts, attempt, evaluation,
                   attempts_db, buggy_ws>>
    /\ UNCHANGED cancel_vars
    /\ UNCHANGED tool_vars

Next ==
    \/ CancelLoad
    \/ CancelReject
    \/ CancelCommit
    \/ LoadEpisode
    \/ BeginInjection
    \/ SandboxStart
    \/ SandboxStartFails
    \/ InjectorSubmits
    \/ InjectorGivesUp
    \/ InjectorRaises
    \/ BeginValidation
    \/ RunValidator
    \/ RunValidatorSandboxError
    \/ CompleteInvalid
    \/ BeginSolving
    \/ PrepareBuggySandbox
    \/ SolverRuns
    \/ SolverRaises
    \/ EvaluateStep
    \/ StoreAttempt
    \/ BeginEvaluating
    \/ ComputeRewards
    \/ RewardsDivideByZero

Spec == Init /\ [][Next]_vars

(***************************************************************************)
(* The solver's edit_file tool (SolverAgent._tool_edit_file, Sandbox.edit). *)
(* A file_path argument is the sequence of its "/"-separated components.   *)
(***************************************************************************)
Components(f) ==
    CASE f = SrcFile -> <<"src", "util.py">>
      [] f = LibFile -> <<"src", "extra.py">>
      [] f = TestFile -> <<"tests", "test_util.py">>
      [] OTHER -> <<f>>

\* python's `a in b` on the two path strings
IsInfix(a, b) ==
    \E i \in 0..(Len(b) - Len(a)) : SubSeq(b, i + 1, i + Len(a)) = a

\* the path the file system resolves a relative path to: "." is dropped,
\* ".." drops the component before it
RECURSIVE ResolveOnto(_, _)
ResolveOnto(acc, path) ==
    IF path = <<>> THEN acc
    ELSE IF Head(path) = "." THEN ResolveOnto(acc, Tail(path))
    ELSE IF Head(path) = ".."
         THEN ResolveOnto(IF acc = <<>> THEN acc ELSE SubSeq(acc, 1, Len(acc) - 1),
                          Tail(path))
    ELSE ResolveOnto(Append(acc, Head(path)), Tail(path))

NoFile == "nofile"

\* the workspace file a file_path names
FileOf(path) ==
    LET named == {f \in AllFiles : Components(f) = ResolveOnto(<<>>, path)}
    IN  IF named = {} THEN NoFile ELSE CHOOSE f \in named : TRUE

\* Sandbox.edit for one EditOperation: [w, error]
SandboxEdit(w, call) ==
    LET f == FileOf(call.file_path)
        missing == f = NoFile \/ w[f] = Absent
    IN  CASE call.operation = "replace" ->
                IF f = NoFile THEN [w |-> w, error |-> TRUE]
                ELSE [w |-> WriteFile(w, f, call.content), error |-> FALSE]
          [] call.operation = "apply_diff" ->
                LET applied == ApplyHunks(w, PatchOf(call.diff))
                IN  [w |-> applied.w, error |-> ~applied.ok]
          [] call.operation = "search_replace" ->
                IF missing THEN [w |-> w, error |-> TRUE]
                ELSE [w |-> IF w[f] = call.old_text
                            THEN WriteFile(w, f, call.content) ELSE w,
                      error |-> FALSE]
          [] call.operation \in {"insert", "delete"} ->
                IF missing THEN [w |-> w, error |-> TRUE]
                ELSE [w |-> WriteFile(w, f, "junk"), error |-> FALSE]
          [] OTHER -> [w |-> w, error |-> TRUE]

\* SolverAgent._tool_edit_file: [w, error]
ToolEditFile(art, w, call) ==
    IF \E test_file \in art.test_files : IsInfix(Components(test_file), call.file_path)
    THEN [w |-> w, error |-> TRUE]
    ELSE SandboxEdit(w, call)

\* the file_path spellings the solver uses
EditPaths ==
    {<<"src", "util.py">>, <<"tests", "test_util.py">>,
     <<".", "tests", "test_util.py">>, <<"tests", ".", "test_util.py">>,
     <<"src", "..", "tests", "test_util.py">>}

\* the arguments of the edit_file calls the solver makes
EditFileCalls ==
    [file_path : EditPaths,
     operation : {"replace", "search_replace", "insert", "delete", "apply_diff", "rename"},
     content : {"gutted", "fix"},
     old_text : {"weak", "bug"},
     diff : {"pred_fix", "pred_junk_cheat"}]

\* one edit_file tool call of the solver's loop
SolverEditsFile ==
    /\ pc = "solve"
    /\ edit_count < MaxEditCalls
    /\ \E call \in EditFileCalls :
          LET out == ToolEditFile(artifact, ws, call)
          IN  /\ ws' = out.w
              /\ last_edit' = [call |-> call, error |-> out.error, before |-> ws]
    /\ edit_count' = edit_count + 1
    /\ UNCHANGED <<db, episode, config, validator_config, pc, sandbox, git, artifact,
                   validation_report, attempt_num, successful_attempts,
                   solver_attempts, attempt, evaluation, attempts_db, buggy_ws,
                   agent, pool, calc, oracle, container>>
    /\ UNCHANGED cancel_vars

\* one uncancelled run up to the solver's first attempt, followed call by
\* call through its edit_file calls
InitSolver ==
    InitWith([solver_attempts : {1},
              reward_alpha : {Rat(8, 10)},
              min_passing_tests : {2},
              min_changed_files : {1},
              min_failing_tests : {1}],
             {[enable_inverse_mutation |-> EnableInverseMutation]})

NextSolver ==
    \/ LoadEpisode
    \/ BeginInjection
    \/ SandboxStart
    \/ InjectorSubmits
    \/ BeginValidation
    \/ RunValidator
    \/ CompleteInvalid
    \/ BeginSolving
    \/ PrepareBuggySandbox
    \/ SolverEditsFile

SolverSpec == InitSolver /\ [][NextSolver]_vars

(***************************************************************************)
(* The agents' tool-use loops (InjectorAgent.run, SolverAgent.run) and     *)
(* their tools.  A text is represented by its length where only the length *)
(* matters, a message of the history by its kind.                          *)
(***************************************************************************)
\* Sandbox.bash: the length of a stream of n characters as it is returned
TruncatedLen(n) ==
    IF n > BashMaxSize THEN BashMaxSize + TruncationMarkerLen ELSE n

\* ToolCallRecord.result["output"] = result[:1000]
TracedLen(n) == IF n > TraceCap THEN TraceCap ELSE n

\* Sandbox.create_diff(base_tag): the stdout of "git diff <tag>", which
\* compares the tracked files of the work tree with the tagged commit (a
\* path the commit does not have is untracked and is not shown); the empty
\* text when the tag does not exist
CreateDiff(w, c) ==
    IF ~c.exists THEN EmptyPatch
    ELSE [f \in {x \in AllFiles : c.tree[x] # Absent /\ w[x] # c.tree[x]} |->
             <<c.tree[f], w[f]>>]

\* _tool_submit_artifact: the required fields that are missing or empty
MissingFields(args) ==
    {name \in {"test_script", "test_parser", "bug_inject_diff", "test_weaken_diff"} :
        args[name] = ""}
    \cup (IF args.test_files = {} THEN {"test_files"} ELSE {})

\* an argument the tool call does not carry (args.get gives None)
NoArgument == "<none>"

\* the arguments of the tool calls the models make
NoEdit ==
    [file_path |-> <<>>, operation |-> "", content |-> "", old_text |-> "",
     diff |-> ""]

ToolCall(name, size, edit, submission, patch) ==
    [name |-> name, size |-> size, edit |-> edit, submission |-> submission,
     patch |-> patch]

ReadFileCalls ==
    {ToolCall("read_file", n, NoEdit, MkArtifact("", ""), NoArgument) :
        n \in {10, TraceCap + 1, BashMaxSize + 1}}

SubmitArtifactCalls ==
    {ToolCall("submit_artifact", 0, NoEdit, args, NoArgument) :
        args \in {MkArtifact("bug_src", "weaken_test"),
                  MkArtifact("bug_src", ""),
                  [MkArtifact("bug_src", "weaken_test") EXCEPT !.test_files = {}]}}

AgentEditCalls ==
    {ToolCall("edit_file", 0, [NoEdit EXCEPT !.file_path = path,
                                             !.operation = "replace",
                                             !.content = "fix"],
              MkArtifact("", ""), NoArgument) :
        path \in {<<"src", "util.py">>, <<"notes.txt">>}}

SubmitPatchCalls ==
    {ToolCall("submit_patch", 0, NoEdit, MkArtifact("", ""), patch) :
        patch \in {NoArgument, "", " ", "pred_fix"}}

InjectorCalls == ReadFileCalls \cup SubmitArtifactCalls

SolverCalls == ReadFileCalls \cup AgentEditCalls \cup SubmitPatchCalls

\* _execute_tool's dispatch: the text the tool returns (its length) and what
\* the tool does to the workspace and to the agent's fields
ToolOutcome(a, w, g, art, call) ==
    LET same == [len |-> 0, error |-> FALSE, w |-> w, artifact |-> a.artifact,
                 pred_patch |-> a.pred_patch, submitted |-> a.submitted]
    IN  CASE call.name = "read_file" ->
                [same EXCEPT !.len = TruncatedLen(call.size)]
          [] call.name = "edit_file" ->
                [same EXCEPT !.len = 30, !.w = ToolEditFile(art, w, call.edit).w,
                             !.error = ToolEditFile(art, w, call.edit).error]
          [] call.name = "submit_artifact" ->
                IF MissingFields(call.submission) # {}
                THEN [same EXCEPT !.len = 40, !.error = TRUE]
                ELSE [same EXCEPT !.len = 120, !.artifact = call.submission,
                                  !.submitted = TRUE]
          [] call.name = "submit_patch" ->
                LET p == IF call.patch \notin {NoArgument, ""} THEN PatchOf(call.patch)
                         ELSE CreateDiff(w, g.tags["ssr-buggy"])
                IN  IF p = EmptyPatch
                    THEN [same EXCEPT !.len = 44, !.error = TRUE, !.pred_patch = p]
                    ELSE [same EXCEPT !.len = 110, !.pred_patch = p,
                                      !.submitted = TRUE]

\* one pass of "for tool_call in result.tool_calls": _execute_tool (which
\* records the call in the trace and returns the full text), then the
\* assistant message and the tool message with that text
ExecuteTool(st, g, art, call) ==
    LET out == ToolOutcome(st.a, st.w, g, art, call)
    IN  [a |-> [st.a EXCEPT
                   !.artifact = out.artifact,
                   !.pred_patch = out.pred_patch,
                   !.submitted = out.submitted,
                   !.tool_calls = Append(@, [tool_name |-> call.name,
                                             arguments |-> call,
                                             output_len |-> TracedLen(out.len)]),
                   !.executed = @ + 1,
                   !.messages = @ \o <<"assistant", "tool">>,
                   !.last = [call |-> call, result_len |-> out.len,
                             error |-> out.error,
                             history_len |-> out.len,
                             traced_len |-> TracedLen(out.len),
                             before |-> st.w,
                             submitted_before |-> st.a.submitted]],
         w |-> out.w]

\* the loop over the tool calls of one response, left as soon as a call
\* has set _submitted
RECURSIVE ExecuteTools(_, _, _, _)
ExecuteTools(st, g, art, calls) ==
    IF calls = <<>> THEN st
    ELSE LET st1 == ExecuteTool(st, g, art, Head(calls))
         IN  IF st1.a.submitted THEN st1
             ELSE ExecuteTools(st1, g, art, Tail(calls))

\* the responses of the model gateway: up to MaxCallsPerResponse tool
\* calls, or none with or without text content
RECURSIVE CallSeqs(_, _)
CallSeqs(calls, n) ==
    IF n = 0 THEN {<<>>}
    ELSE LET shorter == CallSeqs(calls, n - 1)
         IN  shorter \cup {Append(s, c) : s \in shorter, c \in calls}

Responses(calls, tokens) ==
    {[tool_calls |-> s, content |-> c, total_tokens |-> t] :
        s \in CallSeqs(calls, MaxCallsPerResponse) \ {<<>>}, c \in {TRUE}, t \in tokens}
    \cup {[tool_calls |-> <<>>, content |-> c, total_tokens |-> t] :
            c \in BOOLEAN, t \in tokens}

\* the loop's conditions before a gateway request: range(max_steps), the
\* _submitted test and, in the solver, the token budget
LoopContinues(a) ==
    /\ a.step < MaxToolSteps
    /\ ~a.submitted
    /\ a.role = "solver" => a.total_tokens < MaxTokens

\* one iteration of the loop: the gateway request with the history so far,
\* then the handling of the response
LoopStep(a, w, g, art, resp) ==
    LET a1 == [a EXCEPT !.step = @ + 1,
                        !.requests = Append(@, [messages |-> a.messages,
                                                total_tokens |-> a.total_tokens]),
                        !.total_tokens = IF a.role = "solver"
                                         THEN @ + resp.total_tokens ELSE @]
    IN  IF resp.tool_calls # <<>>
        THEN ExecuteTools([a |-> a1, w |-> w], g, art, resp.tool_calls)
        ELSE IF resp.content
        THEN [a |-> [a1 EXCEPT !.messages = @ \o <<"assistant", "user">>], w |-> w]
        ELSE [a |-> a1, w |-> w]

\* InjectorAgent.run up to the loop
InjectorStarts ==
    /\ pc = "inject"
    /\ agent.role = "none"
    /\ agent' = NewAgent("injector", <<"system", "user">>)
    /\ UNCHANGED <<db, episode, config, validator_config, pc, sandbox, ws, git,
                   artifact, validation_report, attempt_num, successful_attempts,
                   solver_attempts, attempt, evaluation, attempts_db, buggy_ws,
                   last_edit, edit_count, pool, calc, oracle, container>>
    /\ UNCHANGED cancel_vars

\* one iteration of the injector's loop
InjectorStep ==
    /\ pc = "inject"
    /\ agent.role = "injector"
    /\ LoopContinues(agent)
    /\ \E resp \in Responses(InjectorCalls, {1}) :
          LET st == LoopStep(agent, ws, git, MkArtifact("", ""), resp)
          IN  /\ agent' = st.a
              /\ ws' = st.w
    /\ UNCHANGED <<db, episode, config, validator_config, pc, sandbox, git,
                   artifact, validation_report, attempt_num, successful_attempts,
                   solver_attempts, attempt, evaluation, attempts_db, buggy_ws,
                   last_edit, edit_count, pool, calc, oracle, container>>
    /\ UNCHANGED cancel_vars

\* the loop is over with an artifact: run returns it to the orchestrator
InjectorReturnsArtifact ==
    /\ agent.role = "injector"
    /\ ~LoopContinues(agent)
    /\ agent.artifact # None
    /\ InjectorSubmitsFrom({agent.artifact})

\* the loop is over without an artifact: run returns None
InjectorReturnsNone ==
    /\ agent.role = "injector"
    /\ ~LoopContinues(agent)
    /\ agent.artifact = None
    /\ InjectorGivesUp

\* SolverAgent.run up to the loop
SolverStarts ==
    /\ pc = "solve"
    /\ agent.role # "solver"
    /\ agent' = NewAgent("solver", <<"system", "user">>)
    /\ UNCHANGED <<db, episode, config, validator_config, pc, sandbox, ws, git,
                   artifact, validation_report, attempt_num, successful_attempts,
                   solver_attempts, attempt, evaluation, attempts_db, buggy_ws,
                   last_edit, edit_count, pool, calc, oracle, container>>
    /\ UNCHANGED cancel_vars

\* one iteration of the solver's loop
SolverStep ==
    /\ pc = "solve"
    /\ agent.role = "solver"
    /\ LoopContinues(agent)
    /\ \E resp \in Responses(SolverCalls, {1, 2}) :
          LET st == LoopStep(agent, ws, git, artifact, resp)
          IN  /\ agent' = st.a
              /\ ws' = st.w
    /\ UNCHANGED <<db, episode, config, validator_config, pc, sandbox, git,
                   artifact, validation_report, attempt_num, successful_attempts,
                   solver_attempts, attempt, evaluation, attempts_db, buggy_ws,
                   last_edit, edit_count, pool, calc, oracle, container>>
    /\ UNCHANGED cancel_vars

\* the loop is over: run returns the SolverAttempt
SolverReturns ==
    /\ pc = "solve"
    /\ agent.role = "solver"
    /\ ~LoopContinues(agent)
    /\ attempt' = [attempt_number |-> attempt_num, pred_patch |-> agent.pred_patch,
                   success |-> FALSE, test_summary |-> [passed |-> 0, failed |-> 0],
                   total_tool_steps |-> Len(agent.tool_calls),
                   total_tokens_used |-> agent.total_tokens]
    /\ evaluation' = None
    /\ pc' = "evaluate"
    /\ UNCHANGED <<db, episode, config, validator_config, sandbox, ws, git, artifact,
                   validation_report, attempt_num, successful_attempts,
                   solver_attempts, attempts_db, buggy_ws>>
    /\ UNCHANGED cancel_vars
    /\ UNCHANGED tool_vars

\* one uncancelled run whose two agents are followed through their loops
InitAgent ==
    InitWith([solver_attempts : {1},
              reward_alpha : {Rat(8, 10)},
              min_passing_tests : {2},
              min_changed_files : {1},
              min_failing_tests : {1}],
             {[enable_inverse_mutation |-> EnableInverseMutation]})

NextAgent ==
    \/ LoadEpisode
    \/ BeginInjection
    \/ SandboxStart
    \/ InjectorStarts
    \/ InjectorStep
    \/ InjectorReturnsArtifact
    \/ InjectorReturnsNone
    \/ BeginValidation
    \/ RunValidator
    \/ CompleteInvalid
    \/ BeginSolving
    \/ PrepareBuggySandbox
    \/ SolverStarts
    \/ SolverStep
    \/ SolverReturns

AgentSpec == InitAgent /\ [][NextAgent]_vars

(***************************************************************************)
(* SandboxPool (sandbox.py).  Each call holds the pool's lock from start   *)
(* to end, so a call is one step.                                          *)
(***************************************************************************)
\* SandboxPool.acquire(image_ref): a recycled sandbox of the image if there
\* is one; else an error when _in_use is at max_sandboxes; else a new
\* sandbox, started (which can raise) and added to _in_use
PoolAcquire(image) ==
    LET avail == pool.available[image]
        id == Len(pool.image_ref) + 1
        called == [op |-> "acquire", live_before |-> Cardinality(pool.started),
                   error |-> FALSE]
    IN  IF avail # <<>>
        THEN pool' = [pool EXCEPT
                        !.available[image] = SubSeq(avail, 1, Len(avail) - 1),
                        !.in_use = @ \cup {avail[Len(avail)]},
                        !.last = called]
        ELSE IF Cardinality(pool.in_use) >= PoolMaxSandboxes
        THEN pool' = [pool EXCEPT !.last = [called EXCEPT !.error = TRUE]]
        ELSE /\ id \in SandboxIds
             /\ \/ pool' = [pool EXCEPT !.image_ref = Append(@, image),
                                         !.started = @ \cup {id},
                                         !.in_use = @ \cup {id},
                                         !.last = called]
                \/ pool' = [pool EXCEPT !.image_ref = Append(@, image),
                                         !.last = [called EXCEPT !.error = TRUE]]

\* SandboxPool.release(sandbox, recycle), called by the holder of a sandbox
\* it acquired
PoolRelease(sb, recycle) ==
    /\ sb \in pool.in_use
    /\ pool' = [pool EXCEPT
                  !.in_use = @ \ {sb},
                  !.available[pool.image_ref[sb]] =
                      IF recycle THEN Append(@, sb) ELSE @,
                  !.started = IF recycle THEN @ ELSE @ \ {sb},
                  !.last = [op |-> "release", live_before |-> Cardinality(pool.started),
                            error |-> FALSE]]

\* SandboxPool.cleanup: the available sandboxes are stopped
PoolCleanup ==
    /\ \E i \in PoolImages : pool.available[i] # <<>>
    /\ pool' = [pool EXCEPT
                  !.available = [i \in PoolImages |-> <<>>],
                  !.started = @ \ {sb \in SandboxIds :
                                     \E i \in PoolImages :
                                         \E k \in 1..Len(pool.available[i]) :
                                             pool.available[i][k] = sb},
                  !.last = [op |-> "cleanup", live_before |-> Cardinality(pool.started),
                            error |-> FALSE]]

PoolAcquires ==
    /\ \E image \in PoolImages : PoolAcquire(image)
    /\ UNCHANGED <<db, episode, config, validator_config, pc, sandbox, ws, git,
                   artifact, validation_report, attempt_num, successful_attempts,
                   solver_attempts, attempt, evaluation, attempts_db, buggy_ws,
                   last_edit, edit_count, agent, calc, oracle, container, cancel_vars>>

PoolReleases ==
    /\ \E sb \in SandboxIds, recycle \in BOOLEAN : PoolRelease(sb, recycle)
    /\ UNCHANGED <<db, episode, config, validator_config, pc, sandbox, ws, git,
                   artifact, validation_report, attempt_num, successful_attempts,
                   solver_attempts, attempt, evaluation, attempts_db, buggy_ws,
                   last_edit, edit_count, agent, calc, oracle, container, cancel_vars>>

PoolCleansUp ==
    /\ PoolCleanup
    /\ UNCHANGED <<db, episode, config, validator_config, pc, sandbox, ws, git,
                   artifact, validation_report, attempt_num, successful_attempts,
                   solver_attempts, attempt, evaluation, attempts_db, buggy_ws,
                   last_edit, edit_count, agent, calc, oracle, container, cancel_vars>>

\* the process-wide pool under any sequence of calls of its clients
InitPool == InitAgent

NextPool ==
    \/ PoolAcquires
    \/ PoolReleases
    \/ PoolCleansUp

PoolSpec == InitPool /\ [][NextPool]_vars

(***************************************************************************)
(* The injector reward as a function of the solve rate: the calculator     *)
(* (RewardCalculator.compute_injector_reward) and the computation in line  *)
(* in _run_pipeline, applied to k and to k2 successes out of n attempts.   *)
(***************************************************************************)
RewardAlphas == {Rat(i, 10) : i \in 1..15}

RewardInputs ==
    {[NoCalc EXCEPT !.alpha = a, !.valid = v, !.n = n, !.k = k, !.k2 = k2] :
        a \in RewardAlphas, v \in BOOLEAN, n \in 1..MaxRewardAttempts,
        k \in 0..MaxRewardAttempts, k2 \in 0..MaxRewardAttempts}

InitReward ==
    InitWithInputs([solver_attempts : {1},
                    reward_alpha : {Rat(8, 10)},
                    min_passing_tests : {2},
                    min_changed_files : {1},
                    min_failing_tests : {1}],
                   {[enable_inverse_mutation |-> EnableInverseMutation]},
                   {c \in RewardInputs : c.k <= c.n /\ c.k2 <= c.n},
                   {NoOracle})

ComputeInjectorRewards ==
    /\ ~calc.done
    /\ calc' = [calc EXCEPT
                  !.done = TRUE,
                  !.r = compute_injector_reward(calc.alpha, calc.valid,
                                                SolveRate(calc.k, calc.n)),
                  !.r2 = compute_injector_reward(calc.alpha, calc.valid,
                                                 SolveRate(calc.k2, calc.n)),
                  !.inline = InjectorReward(calc.alpha, SolveRate(calc.k, calc.n)),
                  !.inline2 = InjectorReward(calc.alpha, SolveRate(calc.k2, calc.n))]
    /\ UNCHANGED <<db, episode, config, validator_config, pc, sandbox, ws, git,
                   artifact, validation_report, attempt_num, successful_attempts,
                   solver_attempts, attempt, evaluation, attempts_db, buggy_ws,
                   last_edit, edit_count, agent, pool, oracle, container, cancel_vars>>

NextReward == ComputeInjectorRewards

RewardSpec == InitReward /\ [][NextReward]_vars

(***************************************************************************)
(* The oracle patch (SolverAgent._get_oracle_test_patch, _reverse_diff).   *)
(* A diff text is the sequence of its lines; a line is given by the        *)
(* characters that decide how _reverse_diff and patch treat it: its tag    *)
(* ("---", "+++", "@@", "+", "-" or " "), the path prefix of a file header, *)
(* the ranges of a hunk header, and the rest of the line.                  *)
(***************************************************************************)
DiffLine(tag, prefix, range, text) ==
    [tag |-> tag, prefix |-> prefix, range |-> range, text |-> text]

\* the contents of a test file: up to MaxFileLines lines
RECURSIVE FileContents(_)
FileContents(n) ==
    IF n = 0 THEN {<<>>}
    ELSE LET shorter == FileContents(n - 1)
         IN  shorter \cup {Append(c, l) : c \in shorter, l \in {"test_a", "test_b"}}

\* the length of the common prefix of two contents
RECURSIVE CommonPrefix(_, _)
CommonPrefix(old, new) ==
    IF old = <<>> \/ new = <<>> \/ Head(old) # Head(new) THEN 0
    ELSE 1 + CommonPrefix(Tail(old), Tail(new))

\* a unified diff of the test file from content old to content new, as the
\* injector submits it: the two file headers and one hunk with the common
\* leading lines as context
UnifiedDiff(old, new) ==
    LET p == CommonPrefix(old, new)
    IN  <<DiffLine("---", "a/", <<>>, TestFile),
          DiffLine("+++", "b/", <<>>, TestFile),
          DiffLine("@@", "", <<IF old = <<>> THEN 0 ELSE 1, Len(old),
                               IF new = <<>> THEN 0 ELSE 1, Len(new)>>, "")>>
        \o [i \in 1..p |-> DiffLine(" ", "", <<>>, old[i])]
        \o [i \in 1..(Len(old) - p) |-> DiffLine("-", "", <<>>, old[p + i])]
        \o [i \in 1..(Len(new) - p) |-> DiffLine("+", "", <<>>, new[p + i])]

\* line.replace('--- a/', '--- b/').replace('--- b/', '--- a/') and its
\* counterpart for '+++': the prefix after the two replacements in turn
ReplaceTwice(prefix, first, second) ==
    LET once == IF prefix = first THEN second ELSE prefix
    IN  IF once = second THEN first ELSE once

\* _reverse_diff on one line
ReverseLine(line) ==
    CASE line.tag = "---" -> [line EXCEPT !.prefix = ReplaceTwice(@, "a/", "b/")]
      [] line.tag = "+++" -> [line EXCEPT !.prefix = ReplaceTwice(@, "b/", "a/")]
      [] line.tag = "+" -> [line EXCEPT !.tag = "-"]
      [] line.tag = "-" -> [line EXCEPT !.tag = "+"]
      [] OTHER -> line

\* _reverse_diff
ReverseDiff(diff) == [i \in 1..Len(diff) |-> ReverseLine(diff[i])]

IsOldSide(line) == line.tag \in {" ", "-"}

IsNewSide(line) == line.tag \in {" ", "+"}

LineText(lines) == [i \in 1..Len(lines) |-> lines[i].text]

\* "patch -p1" with a one-hunk diff on the file: the hunk is malformed when
\* its lines do not add up to the counts of its header, and rejected when
\* its old side is not the file's content at the place named
ApplyDiff(content, diff) ==
    LET hunk == diff[3]
        body == SubSeq(diff, 4, Len(diff))
        old_side == LineText(SelectSeq(body, IsOldSide))
        new_side == LineText(SelectSeq(body, IsNewSide))
        start == IF hunk.range[1] = 0 THEN 1 ELSE hunk.range[1]
        wellformed == /\ Len(old_side) = hunk.range[2]
                      /\ Len(new_side) = hunk.range[4]
        matches == /\ start + Len(old_side) - 1 <= Len(content)
                   /\ SubSeq(content, start, start + Len(old_side) - 1) = old_side
    IN  IF wellformed /\ matches
        THEN [ok |-> TRUE,
              content |-> SubSeq(content, 1, start - 1) \o new_side
                          \o SubSeq(content, start + Len(old_side), Len(content))]
        ELSE [ok |-> FALSE, content |-> content]

\* the weakening diffs the oracle patch is made from
OracleInputs ==
    {[NoOracle EXCEPT !.baseline = old, !.weakened = new,
                      !.test_weaken_diff = UnifiedDiff(old, new)] :
        old \in FileContents(MaxFileLines), new \in FileContents(MaxFileLines)}

InitOracle ==
    InitWithInputs([solver_attempts : {1},
                    reward_alpha : {Rat(8, 10)},
                    min_passing_tests : {2},
                    min_changed_files : {1},
                    min_failing_tests : {1}],
                   {[enable_inverse_mutation |-> EnableInverseMutation]},
                   {NoCalc},
                   {o \in OracleInputs : o.baseline # o.weakened})

\* _get_oracle_test_patch
GetOracleTestPatch ==
    /\ ~oracle.done
    /\ oracle' = [oracle EXCEPT !.done = TRUE,
                                !.oracle_test_patch = ReverseDiff(oracle.test_weaken_diff)]
    /\ UNCHANGED <<db, episode, config, validator_config, pc, sandbox, ws, git,
                   artifact, validation_report, attempt_num, successful_attempts,
                   solver_attempts, attempt, evaluation, attempts_db, buggy_ws,
                   last_edit, edit_count, agent, pool, calc, container, cancel_vars>>

NextOracle == GetOracleTestPatch

OracleSpec == InitOracle /\ [][NextOracle]_vars

(***************************************************************************)
(* Sandbox.bash: the call hands the command to container.exec_run on a     *)
(* worker thread (asyncio.to_thread) and awaits it under asyncio.wait_for. *)
(* The callers await each call before making the next one.                 *)
(***************************************************************************)
BashUnchanged ==
    UNCHANGED <<db, episode, config, validator_config, pc, sandbox, ws, git,
                artifact, validation_report, attempt_num, successful_attempts,
                solver_attempts, attempt, evaluation, attempts_db, buggy_ws,
                last_edit, edit_count, agent, pool, calc, oracle, cancel_vars>>

\* Sandbox.bash is called: exec_run starts the command in the container
BashCall(f) ==
    /\ container.awaiting = 0
    /\ container.calls < MaxBashCalls
    /\ LET c == container.calls + 1
       IN  container' = [container EXCEPT
               !.calls = c,
               !.awaiting = c,
               !.procs = (c :> [file |-> f, wrote |-> FALSE]) @@ @]
    /\ BashUnchanged

\* a command executing in the container writes its file
CommandWrites(c) ==
    /\ c \in DOMAIN container.procs
    /\ ~container.procs[c].wrote
    /\ container' = [container EXCEPT
           !.procs[c].wrote = TRUE,
           !.files[container.procs[c].file] = c]
    /\ BashUnchanged

\* the awaited command exits: exec_run returns, Sandbox.bash returns its result
BashReturns ==
    /\ container.awaiting \in DOMAIN container.procs
    /\ container.procs[container.awaiting].wrote
    /\ container' = [container EXCEPT
           !.awaiting = 0,
           !.procs = [c \in DOMAIN @ \ {container.awaiting} |-> @[c]],
           !.results = Append(@, [exit_code |-> 0, timeout |-> FALSE])]
    /\ BashUnchanged

\* asyncio.TimeoutError: wait_for stops waiting for the worker thread and
\* Sandbox.bash returns; nothing stops exec_run or the command it started
BashTimesOut ==
    /\ container.awaiting \in DOMAIN container.procs
    /\ container' = [container EXCEPT
           !.awaiting = 0,
           !.results = Append(@, [exit_code |-> -1, timeout |-> TRUE])]
    /\ BashUnchanged

\* a command whose bash call has returned exits; its result is dropped
AbandonedCommandExits(c) ==
    /\ c \in DOMAIN container.procs
    /\ c # container.awaiting
    /\ container.procs[c].wrote
    /\ container' = [container EXCEPT
           !.procs = [d \in DOMAIN @ \ {c} |-> @[d]]]
    /\ BashUnchanged

InitBash == InitAgent

NextBash ==
    \/ \E f \in DOMAIN container.files : BashCall(f)
    \/ \E c \in 1..MaxBashCalls : CommandWrites(c)
    \/ BashReturns
    \/ BashTimesOut
    \/ \E c \in 1..MaxBashCalls : AbandonedCommandExits(c)

BashSpec == InitBash /\ [][NextBash]_vars

(***************************************************************************)
(* The validation phase on its own: one uncancelled run up to the branch   *)
(* on validation_report.valid, over a wider range of artifacts, thresholds *)
(* and validator settings.                                                 *)
(***************************************************************************)
BugDiffs ==
    {"bug_src", "bug_src_lib", "bug_lib", "bug_test", "bug_src_hidden_test", "pred_fix"}

WeakenDiffs == {"weaken_test", "weaken_src", "weaken_test_b"}

AllArtifacts ==
    [test_script : {"script"},
     test_files : {{TestFile}, {TestFile, NotesFile}},
     test_parser : Parsers \cup {"garbage"},
     bug_inject_diff : BugDiffs,
     test_weaken_diff : WeakenDiffs]

InjectorSubmitsAny == InjectorSubmitsFrom(AllArtifacts)

InitValidator ==
    InitWith([solver_attempts : {1},
              reward_alpha : {Rat(8, 10)},
              min_passing_tests : {0 - 1, 0, 2},
              min_changed_files : {1, 2},
              min_failing_tests : {1, 2}],
             [enable_inverse_mutation : BOOLEAN])

NextValidator ==
    \/ LoadEpisode
    \/ BeginInjection
    \/ SandboxStart
    \/ InjectorSubmitsAny
    \/ BeginValidation
    \/ RunValidator
    \/ CompleteInvalid
    \/ BeginSolving

ValidatorSpec == InitValidator /\ [][NextValidator]_vars

(***************************************************************************)
(* Properties.                                                             *)
(***************************************************************************)
Terminal == {COMPLETE, FAILED, CANCELLED}

Running == {INJECTING, VALIDATING, SOLVING, EVALUATING}

Rank(st) ==
    CASE st = PENDING -> 0
      [] st = INJECTING -> 1
      [] st = VALIDATING -> 2
      [] st = SOLVING -> 3
      [] st = EVALUATING -> 4
      [] OTHER -> 5

HasReport == validation_report # None

ValidArtifact == HasReport /\ validation_report.valid

InvalidArtifact == HasReport /\ ~validation_report.valid

\* number of stored attempts with success = true
RECURSIVE StoredSuccesses(_)
StoredSuccesses(rows) ==
    IF rows = <<>> THEN 0
    ELSE (IF Head(rows).success THEN 1 ELSE 0) + StoredSuccesses(Tail(rows))

\* C1: the persisted status never moves to an earlier pipeline status, and a
\* persisted COMPLETE, FAILED or CANCELLED never changes again.
C1_StatusMonotone ==
    [][/\ Rank(db'.status) >= Rank(db.status)
       /\ db.status \in Terminal => db'.status = db.status]_vars

\* C2: when the evaluator has run the harness for an attempt, every file of
\* artifact.test_files has the content it had at the baseline snapshot.
C2_TestFilesRestored ==
    (pc = "store" /\ evaluation # None /\ evaluation.ran)
        => \A f \in artifact.test_files : ws[f] = RepoImage[f]

\* the patches a solver may submit
PredPatches == {o.pred : o \in SolverOutcomes} \ {""}

\* two patches whose hunks outside test_files are the same
SameOutsideTests(d1, d2, test_files) ==
    LET p1 == PatchOf(d1)
        p2 == PatchOf(d2)
    IN  /\ DOMAIN p1 \ test_files = DOMAIN p2 \ test_files
        /\ \A f \in DOMAIN p1 \ test_files : p1[f] = p2[f]

\* C3: from the state an attempt is evaluated in, every patch that differs
\* from the submitted one only in hunks on test_files gets the same success.
C3_AntiCheat ==
    (pc = "evaluate" /\ attempt.pred_patch # "")
        => \A d \in PredPatches :
              SameOutsideTests(d, attempt.pred_patch, artifact.test_files)
                  => EvaluateAttempt(artifact, ws, git, d).success
                     = EvaluateAttempt(artifact, ws, git, attempt.pred_patch).success

\* C4: every solver attempt starts from the workspace the first one started
\* from.
C4_IdenticalBuggyState ==
    \A i \in 1..Len(buggy_ws) : buggy_ws[i] = buggy_ws[1]

\* C5: an invalid report takes the orchestrator from VALIDATING straight to
\* COMPLETE, committing r_inject = -1; with an invalid report the solver is
\* never prepared or run, no attempt is stored, and solve_rate and r_solve_avg
\* stay undefined.
C5_InvalidCompletes ==
    [][/\ InvalidArtifact' =>
            /\ attempts_db' = <<>>
            /\ solver_attempts' = <<>>
            /\ buggy_ws' = <<>>
            /\ attempt' = None
            /\ db'.solve_rate = None
            /\ db'.r_solve_avg = None
            /\ db'.r_inject \in {None, Rat(-1, 1)}
       /\ (InvalidArtifact /\ pc = "validated" /\ pc' # pc) =>
            /\ episode.status = VALIDATING
            /\ episode'.status = COMPLETE
            /\ db'.status = COMPLETE
            /\ db'.r_inject = Rat(-1, 1)
            /\ pc' = "done"
       /\ (InvalidArtifact /\ pc = "done") => db'.r_inject = Rat(-1, 1)]_vars

C5_Witness ==
    /\ pc = "done"
    /\ InvalidArtifact
    /\ db.status = COMPLETE
    /\ db.r_inject = Rat(-1, 1)
    /\ attempts_db = <<>>
    /\ db.solve_rate = None

\* C6: a COMPLETE episode with a valid report has exactly
\* config.solver_attempts stored attempts, numbered 1..N in order, and its
\* solve_rate is the number of stored successes over N.
C6_AttemptsStored ==
    (db.status = COMPLETE /\ ValidArtifact) =>
        /\ Len(attempts_db) = config.solver_attempts
        /\ \A i \in 1..Len(attempts_db) : attempts_db[i].attempt_number = i
        /\ db.solve_rate # None
        /\ RatEq(db.solve_rate,
                 Rat(StoredSuccesses(attempts_db), config.solver_attempts))

C6_Witness ==
    /\ db.status = COMPLETE
    /\ ValidArtifact
    /\ Len(attempts_db) = 2
    /\ StoredSuccesses(attempts_db) = 1
    /\ RatEq(db.solve_rate, Rat(1, 2))

\* C7: the r_inject of a COMPLETE episode is what
\* RewardCalculator.compute_injector_reward returns for the report's valid
\* flag and the episode's solve rate: -1 when invalid, -alpha at s = 0 and
\* s = 1, 1 - (1 + alpha) * s in between.
C7_InjectorReward ==
    db.status = COMPLETE =>
        /\ HasReport
        /\ db.r_inject # None
        /\ validation_report.valid =>
              /\ db.solve_rate # None
              /\ RatEq(db.solve_rate,
                       Rat(successful_attempts, config.solver_attempts))
        /\ RatEq(db.r_inject,
                 compute_injector_reward(config.reward_alpha,
                                         validation_report.valid, db.solve_rate))

C7_Witness ==
    /\ db.status = COMPLETE
    /\ ValidArtifact
    /\ config.solver_attempts = 2
    /\ successful_attempts = 1
    /\ config.reward_alpha = Rat(8, 10)
    /\ RatEq(db.r_inject, Rat(1, 10))

\* sum and mean of RewardCalculator.compute_solver_reward over stored rows
RECURSIVE SumSolverRewards(_)
SumSolverRewards(rows) ==
    IF rows = <<>> THEN Rat(0, 1)
    ELSE RatAdd(compute_solver_reward(Head(rows).success),
                SumSolverRewards(Tail(rows)))

MeanSolverReward(rows) == RatMul(SumSolverRewards(rows), Rat(1, Len(rows)))

\* C8: the r_solve_avg of a COMPLETE episode with a valid report is the mean
\* of +1 / -1 over the stored attempts, and equals 2 * solve_rate - 1.
C8_SolverRewardMean ==
    (db.status = COMPLETE /\ ValidArtifact) =>
        /\ db.r_solve_avg # None
        /\ Len(attempts_db) = config.solver_attempts
        /\ RatEq(db.r_solve_avg, MeanSolverReward(attempts_db))
        /\ RatEq(db.r_solve_avg,
                 RatSub(RatMul(Rat(2, 1), db.solve_rate), Rat(1, 1)))

C8_Witness ==
    /\ db.status = COMPLETE
    /\ ValidArtifact
    /\ Len(attempts_db) = 2
    /\ attempts_db[1].success # attempts_db[2].success
    /\ RatEq(db.r_solve_avg, Rat(0, 1))

\* C9: when the run has ended and a cancellation was accepted on a status of
\* INJECTING, VALIDATING, SOLVING or EVALUATING, the persisted status is
\* CANCELLED and the sandbox has been destroyed.
C9_CancelWins ==
    (pc = "done" /\ cancelled_at \cap Running # {}) =>
        /\ db.status = CANCELLED
        /\ sandbox # "started"

\* C10: a CANCELLED episode has no r_inject and no r_solve_avg, and once a
\* cancellation has been accepted no step writes either reward.
C10_NoRewardsWhenCancelled ==
    [][/\ db'.status = CANCELLED =>
            (db'.r_inject = None /\ db'.r_solve_avg = None)
       /\ cancelled_at # {} =>
            (db'.r_inject = db.r_inject /\ db'.r_solve_avg = db.r_solve_avg)]_vars

\* the thresholds of the artifact under validation
Metadata == ArtifactMetadata(config)

\* the order of ValidationStepName in which Validator.validate runs the steps
StepOrder ==
    <<"test_files_existence", "parser_validity", "original_tests_pass",
      "bug_scope", "bug_validity", "test_weakening_validity",
      "inverse_mutation_testing">>

\* the baseline workspace with the artifact's harness written into it
BaselineWithHarness(art) ==
    WriteFile(WriteFile(RepoImage, "test_script.sh", art.test_script),
              "test_parser.py", art.test_parser)

\* C11: the steps of a report are a prefix of the fixed order, only the last
\* one can have failed, a failed step makes valid false, and when validation
\* returns, nothing of a later step has been done to the sandbox: without
\* step 2 no harness file is written, without step 5 no bug_inject.diff is
\* written and the repository files are at baseline, without step 6 no
\* test_weaken.diff is written.
C11_ShortCircuit ==
    HasReport =>
        LET st == validation_report.steps
            n == Len(st)
        IN  /\ n \in 1..7
            /\ \A i \in 1..n : st[i].name = StepOrder[i]
            /\ \A i \in 1..(n - 1) : st[i].passed
            /\ (\E i \in 1..n : ~st[i].passed) => ~validation_report.valid
            /\ pc = "validated" =>
                  /\ n < 2 => ws["test_script.sh"] = Absent
                  /\ n < 5 => /\ ws["bug_inject.diff"] = Absent
                              /\ \A f \in RepoFiles : ws[f] = RepoImage[f]
                  /\ n < 6 => ws["test_weaken.diff"] = Absent

C11_Witness ==
    /\ pc = "validated"
    /\ Len(validation_report.steps) = 5
    /\ ~validation_report.steps[5].passed
    /\ ~validation_report.valid
    /\ ws["bug_inject.diff"] # Absent
    /\ ws["test_weaken.diff"] = Absent

\* C12 as stated: a valid report holds seven passed steps, one per step kind.
C12_SevenSteps ==
    ValidArtifact =>
        /\ Len(validation_report.steps) = 7
        /\ \A i \in 1..7 : /\ validation_report.steps[i].name = StepOrder[i]
                           /\ validation_report.steps[i].passed

\* C12 amended: valid is the conjunction of the passed flags of the steps in
\* the report; a valid report holds steps 1 to 6, and step 7 as well when
\* validator_config.enable_inverse_mutation is set, all passed.
C12_ValidIsConjunction ==
    HasReport =>
        LET st == validation_report.steps
        IN  /\ validation_report.valid <=> \A i \in 1..Len(st) : st[i].passed
            /\ validation_report.valid =>
                  /\ Len(st) = IF validator_config.enable_inverse_mutation THEN 7 ELSE 6
                  /\ \A i \in 1..Len(st) : st[i].name = StepOrder[i]

C12_Witness ==
    /\ ValidArtifact
    /\ ~validator_config.enable_inverse_mutation
    /\ Len(validation_report.steps) = 6
    /\ validation_report.steps[6].passed

\* C13: for a valid artifact, bug_inject_diff applies cleanly to baseline and
\* the harness then reports at least min_failing_tests tests as "failed"
\* (M1); test_weaken_diff applies cleanly on top and some test that is
\* "failed" in M1 is "passed" in the next run (M2).
C13_BugAndWeakening ==
    ValidArtifact =>
        LET bug == ApplyHunks(BaselineWithHarness(artifact),
                              PatchOf(artifact.bug_inject_diff))
            M1 == RunTests(bug.w).map
            weak == ApplyHunks(bug.w, PatchOf(artifact.test_weaken_diff))
            M2 == RunTests(weak.w).map
        IN  /\ bug.ok
            /\ Cardinality({t \in DOMAIN M1 : M1[t] = TFAILED})
                  >= Metadata.min_failing_tests
            /\ weak.ok
            /\ \E t \in DOMAIN M1 :
                  M1[t] = TFAILED /\ t \in DOMAIN M2 /\ M2[t] = PASSED

\* the files touched by bug_inject_diff that do not contribute: with the bug
\* applied to baseline and f alone back at baseline, the harness yields no
\* test map, or no test that failed in M1 is "passed"
NonContributing(art, M1) ==
    {f \in DOMAIN PatchOf(art.bug_inject_diff) :
        LET bug == ApplyHunks(BaselineWithHarness(art), PatchOf(art.bug_inject_diff)).w
            run == RunTests([bug EXCEPT ![f] = RepoImage[f]])
        IN  ~(/\ run.parsed
              /\ \E t \in DOMAIN M1 :
                    M1[t] = TFAILED /\ t \in DOMAIN run.map /\ run.map[t] = PASSED)}

\* step 7 was executed, on the files the bug diff touches, with HEAD holding
\* the baseline
Step7Ran ==
    /\ pc = "validated"
    /\ Len(validation_report.steps) = 7
    /\ validation_report.ctx.changed_code_files
          = DOMAIN PatchOf(artifact.bug_inject_diff)
    /\ \A f \in RepoFiles : git.head.tree[f] = RepoImage[f]

\* C14: when step 7 is executed it fails exactly when some file touched by
\* bug_inject_diff is non-contributing, and the files it lists are exactly
\* the non-contributing ones; a run without a usable test map does not make
\* its file contributing.
C14_InverseMutation ==
    Step7Ran =>
        LET NC == NonContributing(artifact, validation_report.ctx.bug_test_mapping)
        IN  /\ validation_report.steps[7].passed <=> NC = {}
            /\ validation_report.ctx.non_contributing_files = NC

\* C15: a valid artifact has every path of test_files present at baseline,
\* every file touched by test_weaken_diff in test_files, no file touched by
\* bug_inject_diff in test_files, and at least min_changed_files files
\* touched by bug_inject_diff.
C15_Scope ==
    ValidArtifact =>
        /\ \A f \in artifact.test_files : RepoImage[f] # Absent
        /\ DOMAIN PatchOf(artifact.test_weaken_diff) \subseteq artifact.test_files
        /\ DOMAIN PatchOf(artifact.bug_inject_diff) \cap artifact.test_files = {}
        /\ Cardinality(DOMAIN PatchOf(artifact.bug_inject_diff))
              >= Metadata.min_changed_files

\* step 3 was executed on the map M0 that step 2 recorded
Step3Ran == HasReport /\ Len(validation_report.steps) >= 3

\* C16 as stated: step 3 passes if and only if every test of M0 is "passed"
\* and |M0| >= min_passing_tests.
C16_OriginalTestsIff ==
    Step3Ran =>
        LET M0 == validation_report.ctx.test_mapping
        IN  validation_report.steps[3].passed <=>
                /\ \A t \in DOMAIN M0 : M0[t] = PASSED
                /\ Cardinality(DOMAIN M0) >= Metadata.min_passing_tests

\* C16 amended: step 3 passes if and only if M0 is not empty, every test of
\* M0 is "passed" and |M0| >= min_passing_tests; the empty map always fails.
C16_OriginalTests ==
    Step3Ran =>
        LET M0 == validation_report.ctx.test_mapping
        IN  validation_report.steps[3].passed <=>
                /\ DOMAIN M0 # {}
                /\ \A t \in DOMAIN M0 : M0[t] = PASSED
                /\ Cardinality(DOMAIN M0) >= Metadata.min_passing_tests

C16_Witness ==
    /\ Step3Ran
    /\ ~validation_report.steps[3].passed
    /\ DOMAIN validation_report.ctx.test_mapping = {}
    /\ Metadata.min_passing_tests <= 0

\* C17: when the parser's output at baseline is a JSON object holding a value
\* outside {passed, failed, skipped, error}, step 3 fails and the artifact is
\* invalid.
C17_UnknownStatusIsError ==
    (HasReport /\ Len(validation_report.steps) >= 2
               /\ validation_report.steps[2].passed) =>
        LET raw == RunTests(BaselineWithHarness(artifact)).map
        IN  (\E t \in DOMAIN raw : raw[t] \notin TestStatuses) =>
                /\ Len(validation_report.steps) = 3
                /\ ~validation_report.steps[3].passed
                /\ ~validation_report.valid

\* C18: an edit_file call never changes a file of test_files, and a call
\* whose file_path names a file of test_files returns an error and leaves
\* the workspace as it was.
C18_SolverConfined ==
    (pc = "solve" /\ last_edit # None) =>
        /\ \A f \in artifact.test_files : ws[f] = last_edit.before[f]
        /\ FileOf(last_edit.call.file_path) \in artifact.test_files =>
              last_edit.error /\ ws = last_edit.before

\* a solver attempt is about to start: the buggy state is prepared and the
\* solver has made no tool call yet
AttemptStarts == pc = "solve" /\ edit_count = 0

BuggyState(art) ==
    LET w1 == ApplyHunks(RepoImage, PatchOf(art.bug_inject_diff)).w
        w2 == ApplyHunks(w1, PatchOf(art.test_weaken_diff)).w
    IN  WriteFile(WriteFile(WriteFile(w2, "test_script.sh", art.test_script),
                            "test_parser.py", art.test_parser),
                  "test_files.txt", "list")

\* C20: the workspace a solver attempt starts from is exactly the buggy state
\* of the artifact: every file of it has the buggy state's content and no
\* other file exists (no bug_inject.diff, no test_weaken.diff, nothing the
\* injector or the validator left behind).
C20_ExactBuggyWorkspace ==
    AttemptStarts => \A f \in AllFiles : ws[f] = BuggyState(artifact)[f]

\* C21: the restore the orchestrator performs between INJECTING and
\* VALIDATING ("git checkout ssr-original -- .") leaves the workspace with
\* exactly the content the ssr-original tag holds, whatever the injector did
\* to the workspace and the repository.
C21_RestoreIsExact ==
    pc = "validate" =>
        CheckoutAll(ws, git.tags["ssr-original"]) = git.tags["ssr-original"].tree

\* C22: when run_episode has returned, no sandbox container of the episode
\* is left: a sandbox that was started has been stopped and removed.
C22_SandboxDestroyed ==
    pc = "done" => sandbox \in {"none", "stopped"}

\* the run ended in the injection stage: the sandbox was started and the
\* injector returned no artifact or raised
InjectionFailed == pc = "done" /\ sandbox # "none" /\ artifact = None

\* C23: the step that ends the injector run without an artifact commits
\* status FAILED with an error message; from then on the validator and the
\* solver are never run, and artifact, validation report, attempts and
\* rewards stay undefined.
C23_InjectorFailure ==
    [][/\ (pc = "inject" /\ pc' = "done") =>
            /\ episode'.status = FAILED
            /\ db'.status = FAILED
            /\ db'.error_message # NoMessage
            /\ InjectionFailed'
       /\ InjectionFailed' =>
            /\ validation_report' = None
            /\ attempts_db' = <<>>
            /\ buggy_ws' = <<>>
            /\ db'.artifact_id = None
            /\ db'.validation_report_id = None
            /\ db'.solve_rate = None
            /\ db'.r_inject = None
            /\ db'.r_solve_avg = None
       /\ InjectionFailed => InjectionFailed']_vars

C23_Witness ==
    /\ InjectionFailed
    /\ db.status = FAILED
    /\ db.error_message = "Injector failed to produce artifact"

\* C24: in every state of the persisted episode row, error_message is set
\* if and only if status is FAILED.
C24_ErrorMessageIffFailed ==
    (db.error_message # NoMessage) <=> (db.status = FAILED)

\* a sandbox error was raised while the validator ran
SandboxErrorInValidation ==
    HasReport /\ validation_report.error_message # NoMessage

\* C25: when a sandbox error was raised during validation, the run ends with
\* the episode FAILED and the error in error_message, not COMPLETE with
\* r_inject = -1.
C25_SandboxErrorFails ==
    (pc = "done" /\ SandboxErrorInValidation) =>
        /\ episode.status = FAILED
        /\ episode.error_message # NoMessage
        /\ episode.r_inject = None

(***************************************************************************)
(* The agents' loops and tools.                                            *)
(***************************************************************************)
\* the injector's trace holds a submit_artifact call with a required field
\* missing or empty
MalformedSubmitted ==
    /\ agent.role = "injector"
    /\ \E i \in 1..Len(agent.tool_calls) :
          /\ agent.tool_calls[i].tool_name = "submit_artifact"
          /\ MissingFields(agent.tool_calls[i].arguments.submission) # {}

\* C26: once the injector has called submit_artifact with any of the five
\* required fields missing or empty, the injection stage ends in failure: no
\* artifact exists, the pipeline does not go past injection, and the episode
\* ends FAILED with a reason
C26_MalformedSubmissionFails ==
    MalformedSubmitted =>
        /\ agent.artifact = None
        /\ artifact = None
        /\ pc \in {"inject", "done"}
        /\ pc = "done" => /\ episode.status = FAILED
                          /\ episode.error_message # NoMessage

\* C27: the number of tool calls an agent has executed never exceeds its
\* step budget (max_steps / max_tool_steps), responses with several tool
\* calls included, and the solver makes no gateway request once its token
\* total has reached max_tokens
C27_BudgetsRespected ==
    agent.role # "none" =>
        /\ agent.executed <= MaxToolSteps
        /\ Len(agent.tool_calls) <= MaxToolSteps
        /\ agent.role = "solver" =>
              \A i \in 1..Len(agent.requests) :
                  agent.requests[i].total_tokens < MaxTokens

\* C28: two consecutive gateway requests of an agent never carry the same
\* message history: after a response without tool calls, with or without
\* text, a nudge is appended before the next request
C28_HistoryGrows ==
    \A i \in 1..(Len(agent.requests) - 1) :
        agent.requests[i].messages # agent.requests[i + 1].messages

\* C29: for every tool call, the text appended to the history is at most a
\* fixed cap long (the sandbox's cap on a stream), and the trace records the
\* complete result
C29_HistoryCappedTraceComplete ==
    agent.last # None =>
        /\ agent.last.history_len <= BashMaxSize + TruncationMarkerLen
        /\ agent.last.traced_len = agent.last.result_len

\* the last tool call executed is a submit_patch
SubmitPatchCalled == agent.last # None /\ agent.last.call.name = "submit_patch"

\* C30: submit_patch without arguments records as the predicted patch the
\* diff of the current workspace against the buggy snapshot (the patch that
\* takes the snapshot to the workspace); when that diff, or the patch
\* supplied, is empty, the call returns an error and the run is not marked
\* submitted, and otherwise the run is submitted
C30_SubmitPatch ==
    SubmitPatchCalled =>
        LET call == agent.last.call
            buggy == git.tags["ssr-buggy"].tree
            empty == IF call.patch = NoArgument
                     THEN ws = buggy
                     ELSE PatchOf(call.patch) = EmptyPatch
        IN  /\ call.patch = NoArgument =>
                  ApplyHunks(buggy, agent.pred_patch).w = ws
            /\ empty => agent.last.error /\ ~agent.submitted
            /\ ~empty => ~agent.last.error /\ agent.submitted

(***************************************************************************)
(* The sandbox pool.                                                       *)
(***************************************************************************)
\* C31: under every interleaving of acquire and release calls the number of
\* running sandboxes of the pool never exceeds max_sandboxes, and an acquire
\* that would start one more fails with an error instead
C31_PoolCap ==
    /\ Cardinality(pool.started) <= PoolMaxSandboxes
    /\ Cardinality(pool.in_use) <= PoolMaxSandboxes
    /\ (pool.last # None /\ pool.last.op = "acquire" /\ ~pool.last.error) =>
          \/ Cardinality(pool.started) = pool.last.live_before
          \/ pool.last.live_before < PoolMaxSandboxes

(***************************************************************************)
(* Attempts, evaluation and rewards.                                       *)
(***************************************************************************)
\* C32: while attempt j is prepared, run, evaluated or stored, and after an
\* episode has failed during attempt j, the rows of attempts 1..j-1 are in
\* the database, each with its attempt's success flag and patch reference
C32_EarlierAttemptsPersisted ==
    attempt_num >= 1 =>
        /\ Len(attempts_db) >= attempt_num - 1
        /\ \A i \in 1..(attempt_num - 1) :
              /\ attempts_db[i].attempt_number = i
              /\ attempts_db[i].success = solver_attempts[i].success
              /\ attempts_db[i].has_pred_patch_ref = (solver_attempts[i].pred_patch # "")

C32_Witness ==
    /\ pc = "done"
    /\ db.status = FAILED
    /\ attempt_num = 2
    /\ Len(attempts_db) = 1
    /\ attempts_db[1].success

\* the largest of 1 and alpha
MaxOneAlpha(alpha) == IF RatLess(Rat(1, 1), alpha) THEN alpha ELSE Rat(1, 1)

\* what C33 asks of the rewards r and r2 computed for k and k2 successes
RewardShape(c, r, r2) ==
    /\ (c.valid /\ 0 < c.k /\ c.k < c.k2 /\ c.k2 < c.n) => RatLess(r2, r)
    /\ (c.valid /\ c.k \in {0, c.n}) => RatEq(r, RatNeg(c.alpha))
    /\ ~RatLess(r, RatNeg(MaxOneAlpha(c.alpha)))
    /\ RatLess(r, Rat(1, 1))

\* C33: for a valid artifact the injector reward is strictly decreasing in
\* the solve rate over 0 < k < k' < N, equals -alpha at solve rates 0 and 1,
\* and every reward lies in [-max(1, alpha), 1); this holds for the reward
\* calculator and for the computation in the pipeline
C33_RewardShape ==
    calc.done =>
        /\ RewardShape(calc, calc.r, calc.r2)
        /\ calc.valid => RewardShape(calc, calc.inline, calc.inline2)

C33_Witness ==
    /\ calc.done
    /\ calc.valid
    /\ calc.n = 4 /\ calc.k = 1 /\ calc.k2 = 3
    /\ RatEq(calc.alpha, Rat(8, 10))
    /\ RatEq(calc.r, Rat(55, 100))
    /\ RatEq(calc.r2, Rat(-35, 100))

\* C34: the oracle patch is the reverse of test_weaken_diff: applied to the
\* weakened test file it gives back the baseline test file, and its file
\* headers carry the a/ and b/ prefixes swapped
C34_OracleRoundTrip ==
    oracle.done =>
        /\ ApplyDiff(oracle.weakened, oracle.oracle_test_patch)
              = [ok |-> TRUE, content |-> oracle.baseline]
        /\ oracle.oracle_test_patch[1].prefix = oracle.test_weaken_diff[2].prefix
        /\ oracle.oracle_test_patch[2].prefix = oracle.test_weaken_diff[1].prefix

\* C35: at each run of the harness in step 7, for a file f of the changed
\* code files, f has its baseline content (wherever HEAD is), every other
\* changed code file has its bug-injected content and no test file carries
\* the weakening; when step 7 has finished the repository files are back at
\* baseline
C35_InverseMutationStates ==
    (HasReport /\ Len(validation_report.steps) = 7) =>
        LET runs == validation_report.ctx.harness_runs
            C == validation_report.ctx.changed_code_files
            bug == ApplyHunks(RepoImage, PatchOf(artifact.bug_inject_diff)).w
        IN  /\ \A i \in 1..Len(runs) :
                  /\ runs[i].w[runs[i].file_path] = RepoImage[runs[i].file_path]
                  /\ \A f \in C \ {runs[i].file_path} : runs[i].w[f] = bug[f]
                  /\ \A t \in artifact.test_files : runs[i].w[t] = RepoImage[t]
            /\ pc = "validated" => \A f \in RepoFiles : ws[f] = RepoImage[f]

\* C36: every command executing in the sandbox container is the command of
\* the Sandbox.bash call that has not yet returned; so at most one command
\* executes at a time and a command whose call returned (also with
\* timeout = true, exit code -1) no longer acts on the workspace.
C36_OneCommandAtATime ==
    \A c \in DOMAIN container.procs : c = container.awaiting

\* C37: the step that evaluates an attempt with a predicted patch sets
\* success exactly when the patch applied with exit code 0, the harness
\* output parsed as a JSON object and every status in it is "passed"; in
\* every other case success is false, and in all cases the pipeline goes on
\* to store the attempt without marking the episode FAILED.
C37_SuccessIffAllPassed ==
    [][(pc = "evaluate" /\ pc' # "evaluate" /\ attempt.pred_patch # "") =>
          LET w0 == CheckoutAll(ws, git.tags["ssr-buggy"])
              applied == PatchForward(WriteFile(w0, "pred_patch.diff", attempt.pred_patch),
                                      "pred_patch.diff")
              w1 == CheckoutFiles(applied.w, git.tags["ssr-original"], artifact.test_files)
              out == RunTests(w1)
          IN  /\ attempt'.success <=>
                    /\ applied.ok
                    /\ out.parsed
                    /\ \A k \in DOMAIN out.map : out.map[k] = PASSED
              /\ evaluation'.success = attempt'.success
              /\ successful_attempts' =
                    successful_attempts + (IF attempt'.success THEN 1 ELSE 0)
              /\ pc' = "store"
              /\ episode'.status # FAILED /\ db'.status # FAILED]_vars

\* a second attempt evaluated successful after a first one, also with a
\* patch, was evaluated unsuccessful
C37_Witness ==
    /\ pc = "store"
    /\ evaluation # None /\ evaluation.ran /\ attempt.success
    /\ Len(attempts_db) = 1
    /\ attempts_db[1].has_pred_patch_ref /\ ~attempts_db[1].success

\* C38: when the evaluator has run the harness for an attempt, the
\* workspace it ran on holds test_script.sh and test_parser.py with exactly
\* the artifact's test_script and test_parser.
C38_HarnessUntouched ==
    (pc = "store" /\ evaluation # None /\ evaluation.ran) =>
        /\ ws["test_script.sh"] = artifact.test_script
        /\ ws["test_parser.py"] = artifact.test_parser

\* C39: when the harness output of an evaluation parses to the empty JSON
\* object, the attempt is successful with 0 tests passed and 0 failed.
C39_EmptyMapSucceeds ==
    (pc = "store" /\ evaluation # None /\ evaluation.ran
        /\ RunTests(ws).parsed /\ DOMAIN RunTests(ws).map = {}) =>
        /\ attempt.success /\ evaluation.success
        /\ attempt.test_summary = [passed |-> 0, failed |-> 0]

C39_Witness ==
    /\ pc = "store" /\ evaluation # None /\ evaluation.ran
    /\ RunTests(ws).parsed /\ DOMAIN RunTests(ws).map = {}
    /\ attempt.success

====
